---- MODULE Spec2Model ----
(***************************************************************************)
(* Model of the Join task board: the Firestore document store behind       *)
(* FirebaseServices, the cascading mutations (deleteTaskWithChildren,      *)
(* deleteContact, DialogShowEditTask.saveTask, AddTask.createTask) and the *)
(* reactive Board.tasks$ / Board.enrichTask join.                          *)
(*                                                                         *)
(* Every awaited store call of an async method is one atomic step: the     *)
(* store applies it (or rejects it) and the method resumes at its next     *)
(* awaited call.  Methods of different clients interleave between steps.   *)
(***************************************************************************)
EXTENDS Integers, Sequences, FiniteSets, TLC

(* ------------------------------ bounds --------------------------------- *)
\* number of auto-generated subcollection document ids (addDoc) available
MaxDocs == 6
\* most subtasks in a snapshot of a task's subtask stream
MaxSubtasks == 4
\* most assignments in a snapshot of a task's assignment stream
MaxAssigns == 1
\* longest list of desired assignees / subtasks entered in a form
MaxDesired == 2
\* longest list of desired assignees / subtasks of a form that races with
\* another operation
MaxRace == 1
\* most stored assignments / subtasks of the task a form is saved to
MaxStored == 2
\* assignment rows in a snapshot of the join whose rows are followed one by one
MaxRows == 2

(* --------------------------- identifier sets --------------------------- *)
NoId == ""
ContactIds == {"c1", "c2"}
TaskIds == {"t1", "t2"}
Titles == {"x", "y"}
NoUser == "null"

(* ------------------------------ state ---------------------------------- *)
VARIABLES
  contacts,     \* contacts/{id}: "absent", "plain" (isUser not true) or "user"
  tasks,        \* ids of the existing tasks/{id} documents
  usedTasks,    \* task ids addDoc has already generated
  assigns,      \* tasks/{task}/assigns/{id} documents
  subtasks,     \* tasks/{task}/subtasks/{id} documents
  nextId,       \* next auto-generated subcollection document id
  currentUser,  \* auth.currentUser: uid of the signed-in user or NoUser
  credentials,  \* uids that have an authentication account
  dt,           \* a running FirebaseServices.deleteTaskWithChildren
  dc,           \* a running FirebaseServices.deleteContact
  st,           \* the DialogShowEditTask dialog and its running saveTask
  ct,           \* a running AddTask.createTask
  board,        \* one subscription of Board.tasks$: its operators' state
  taskDocs,     \* the fields of the tasks/{id} documents
  contactDocs,  \* the fields of the contacts/{id} documents
  st2,          \* a second saveTask that waits at its await while st runs, or None
  views         \* the subscriptions of the four column views of the board

docVars == <<taskDocs, contactDocs>>
peerVars == <<st2, views>>
storeVars == <<contacts, tasks, usedTasks, assigns, subtasks, nextId, currentUser,
              credentials, docVars>>
cascadeVars == <<contacts, tasks, usedTasks, assigns, subtasks, nextId, currentUser, credentials,
                 docVars, peerVars,
                 dt, dc, st, ct>>
vars == <<contacts, tasks, usedTasks, assigns, subtasks, nextId, currentUser, credentials,
          docVars, peerVars,
          dt, dc, st, ct, board>>

(* ----------------------------- helpers --------------------------------- *)
Range(s) == {s[i] : i \in 1..Len(s)}

SeqsUpTo(S, n) == UNION {[1..k -> S] : k \in 0..n}

\* the documents of a subcollection of one task (getDocs / collectionData)
AssignsOf(t) == {a \in assigns : a.task = t}
SubtasksOf(t) == {s \in subtasks : s.task = t}

IdsOf(docs) == {d.id : d \in docs}

(* ----------------- FirebaseServices.deleteTaskWithChildren ------------- *)
\* first: when this call directly follows another one, that call's result
\* and the store it left
dtIdle == [pc |-> "idle", taskId |-> NoId, subtasksSnap |-> {}, assignsSnap |-> {},
           result |-> "none", calls |-> 0, first |-> <<>>]

\* the call without its guard on taskId
deleteTaskWithChildren_Call_NoGuard(taskId) ==
  /\ dt.pc = "idle"
  /\ dt' = [dtIdle EXCEPT !.pc = "getSubtasks", !.taskId = taskId]
  /\ UNCHANGED <<storeVars, dc, st, ct, board, peerVars>>

\* the synchronous part of the call: the guard on taskId, then the first getDocs
deleteTaskWithChildren_Call(taskId) ==
  /\ dt.pc = "idle"
  /\ dt' = IF taskId = NoId
             THEN [dtIdle EXCEPT !.pc = "done", !.result = "missing-id"]
             ELSE [dtIdle EXCEPT !.pc = "getSubtasks", !.taskId = taskId]
  /\ UNCHANGED <<storeVars, dc, st, ct, board, peerVars>>

\* await getDocs(subtasksRef)
deleteTaskWithChildren_GetSubtasks(ok) ==
  /\ dt.pc = "getSubtasks"
  /\ dt' = IF ok
             THEN [dt EXCEPT !.pc = "getAssigns", !.calls = @ + 1,
                             !.subtasksSnap = IdsOf(SubtasksOf(dt.taskId))]
             ELSE [dt EXCEPT !.pc = "done", !.calls = @ + 1, !.result = "store-error"]
  /\ UNCHANGED <<storeVars, dc, st, ct, board, peerVars>>

\* await getDocs(assignsRef)
deleteTaskWithChildren_GetAssigns(ok) ==
  /\ dt.pc = "getAssigns"
  /\ dt' = IF ok
             THEN [dt EXCEPT !.pc = "commit", !.calls = @ + 1,
                             !.assignsSnap = IdsOf(AssignsOf(dt.taskId))]
             ELSE [dt EXCEPT !.pc = "done", !.calls = @ + 1, !.result = "store-error"]
  /\ UNCHANGED <<storeVars, dc, st, ct, board, peerVars>>

\* the deletes issued one after the other instead of in one batch: a failure
\* stops them after the subtasks
deleteTaskWithChildren_Commit_Unbatched(ok) ==
  /\ dt.pc = "commit"
  /\ subtasks' = {s \in subtasks : ~(s.task = dt.taskId /\ s.id \in dt.subtasksSnap)}
  /\ IF ok
       THEN /\ assigns' = {a \in assigns : ~(a.task = dt.taskId /\ a.id \in dt.assignsSnap)}
            /\ tasks' = tasks \ {dt.taskId}
            /\ dt' = [dt EXCEPT !.pc = "done", !.calls = @ + 1, !.result = "ok"]
       ELSE /\ UNCHANGED <<assigns, tasks>>
            /\ dt' = [dt EXCEPT !.pc = "done", !.calls = @ + 1, !.result = "store-error"]
  /\ UNCHANGED <<contacts, usedTasks, nextId, currentUser, credentials, dc, st, ct, board, docVars, peerVars>>

\* the commit of a batch whose delete of the task document needs the
\* document to exist
deleteTaskWithChildren_Commit_MustExist(ok) ==
  /\ dt.pc = "commit"
  /\ IF ok /\ dt.taskId \in tasks
       THEN /\ subtasks' = {s \in subtasks : ~(s.task = dt.taskId /\ s.id \in dt.subtasksSnap)}
            /\ assigns' = {a \in assigns : ~(a.task = dt.taskId /\ a.id \in dt.assignsSnap)}
            /\ tasks' = tasks \ {dt.taskId}
            /\ dt' = [dt EXCEPT !.pc = "done", !.calls = @ + 1, !.result = "ok"]
       ELSE /\ UNCHANGED <<subtasks, assigns, tasks>>
            /\ dt' = [dt EXCEPT !.pc = "done", !.calls = @ + 1,
                                !.result = IF ok THEN "not-found" ELSE "store-error"]
  /\ UNCHANGED <<contacts, usedTasks, nextId, currentUser, credentials, dc, st, ct, board, docVars, peerVars>>

\* await batch.commit(): the staged deletes are applied together or not at all;
\* a delete of a document that does not exist succeeds
deleteTaskWithChildren_Commit(ok) ==
  /\ dt.pc = "commit"
  /\ IF ok
       THEN /\ subtasks' = {s \in subtasks : ~(s.task = dt.taskId /\ s.id \in dt.subtasksSnap)}
            /\ assigns' = {a \in assigns : ~(a.task = dt.taskId /\ a.id \in dt.assignsSnap)}
            /\ tasks' = tasks \ {dt.taskId}
            /\ dt' = [dt EXCEPT !.pc = "done", !.calls = @ + 1, !.result = "ok"]
       ELSE /\ UNCHANGED <<subtasks, assigns, tasks>>
            /\ dt' = [dt EXCEPT !.pc = "done", !.calls = @ + 1, !.result = "store-error"]
  /\ UNCHANGED <<contacts, usedTasks, nextId, currentUser, credentials, dc, st, ct, board, docVars, peerVars>>

\* the promise has settled; the caller may call again
deleteTaskWithChildren_Return ==
  /\ dt.pc = "done"
  /\ dt' = dtIdle
  /\ UNCHANGED <<storeVars, dc, st, ct, board, peerVars>>

\* the caller awaits the promise and calls again with the same taskId
deleteTaskWithChildren_CallAgain ==
  /\ dt.pc = "done"
  /\ dt.taskId # NoId
  /\ dt.first = <<>>
  /\ dt' = [dtIdle EXCEPT !.pc = "getSubtasks", !.taskId = dt.taskId,
                          !.first = <<[result |-> dt.result, tasks |-> tasks,
                                       assigns |-> assigns, subtasks |-> subtasks]>>]
  /\ UNCHANGED <<storeVars, dc, st, ct, board, peerVars>>

(* ----------------------- FirebaseServices.deleteContact ---------------- *)
dcIdle == [pc |-> "idle", contactId |-> NoId, caller |-> NoUser, contactSnap |-> "none",
           assignsSnap |-> {}, result |-> "none", calls |-> 0]

\* the check without the exemption of the caller's own account
PermissionDenied_NoOwner(contactSnap, caller, contactId) ==
  /\ contactSnap # "absent"
  /\ contactSnap = "user"

\* a check that also refuses a contact id without a document
PermissionDenied_Absent(contactSnap, caller, contactId) ==
  \/ contactSnap = "absent"
  \/ contactSnap = "user" /\ caller # contactId

\* isRegisteredUser && !isOwnAccount, evaluated on the getDoc snapshot
PermissionDenied(contactSnap, caller, contactId) ==
  /\ contactSnap # "absent"
  /\ contactSnap = "user"
  /\ caller # contactId

\* the synchronous part of the call: the guard on contactId and the capture
\* of auth.currentUser, then the getDoc
deleteContact_Call(contactId) ==
  /\ dc.pc = "idle"
  /\ dc' = IF contactId = NoId
             THEN [dcIdle EXCEPT !.pc = "done", !.result = "missing-id"]
             ELSE [dcIdle EXCEPT !.pc = "getDoc", !.contactId = contactId,
                                 !.caller = currentUser]
  /\ UNCHANGED <<storeVars, dt, st, ct, board, peerVars>>

\* the collection-group query: assigns of every task where contactId == C
AssignsOfContact(c) == {a \in assigns : a.contactId = c}

\* a permission check that comes after the contact's assignments have been
\* deleted
deleteContact_GetDoc_PurgeFirst(ok) ==
  /\ dc.pc = "getDoc"
  /\ dc' = IF ~ok
             THEN [dc EXCEPT !.pc = "done", !.calls = @ + 1, !.result = "store-error"]
             ELSE IF PermissionDenied(contacts[dc.contactId], dc.caller, dc.contactId)
               THEN [dc EXCEPT !.pc = "done", !.calls = @ + 1,
                               !.contactSnap = contacts[dc.contactId],
                               !.result = "permission-denied"]
               ELSE [dc EXCEPT !.pc = "getAssigns", !.calls = @ + 1,
                               !.contactSnap = contacts[dc.contactId]]
  /\ assigns' = IF ok THEN assigns \ AssignsOfContact(dc.contactId) ELSE assigns
  /\ UNCHANGED <<contacts, tasks, usedTasks, subtasks, nextId, currentUser, credentials,
                 dt, st, ct, board, docVars, peerVars>>

\* await getDoc(contactRef), then the permission check on the snapshot
deleteContact_GetDoc(ok) ==
  /\ dc.pc = "getDoc"
  /\ dc' = IF ~ok
             THEN [dc EXCEPT !.pc = "done", !.calls = @ + 1, !.result = "store-error"]
             ELSE IF PermissionDenied(contacts[dc.contactId], dc.caller, dc.contactId)
               THEN [dc EXCEPT !.pc = "done", !.calls = @ + 1,
                               !.contactSnap = contacts[dc.contactId],
                               !.result = "permission-denied"]
               ELSE [dc EXCEPT !.pc = "getAssigns", !.calls = @ + 1,
                               !.contactSnap = contacts[dc.contactId]]
  /\ UNCHANGED <<storeVars, dt, st, ct, board, peerVars>>

\* await getDocs(q); an empty result skips the batch
deleteContact_GetAssigns(ok) ==
  /\ dc.pc = "getAssigns"
  /\ dc' = IF ~ok
             THEN [dc EXCEPT !.pc = "done", !.calls = @ + 1, !.result = "store-error"]
             ELSE [dc EXCEPT !.pc = IF AssignsOfContact(dc.contactId) = {}
                                      THEN "deleteDoc" ELSE "commit",
                             !.calls = @ + 1,
                             !.assignsSnap = IdsOf(AssignsOfContact(dc.contactId))]
  /\ UNCHANGED <<storeVars, dt, st, ct, board, peerVars>>

\* a commit whose failure is ignored: the method goes on to the contact
deleteContact_Commit_IgnoreFailure(ok) ==
  /\ dc.pc = "commit"
  /\ IF ok
       THEN assigns' = {a \in assigns : a.id \notin dc.assignsSnap}
       ELSE UNCHANGED assigns
  /\ dc' = [dc EXCEPT !.pc = "deleteDoc", !.calls = @ + 1]
  /\ UNCHANGED <<contacts, tasks, usedTasks, subtasks, nextId, currentUser, credentials,
                 dt, st, ct, board, docVars, peerVars>>

\* await batch.commit() of the deletes of the queried assignments
deleteContact_Commit(ok) ==
  /\ dc.pc = "commit"
  /\ IF ok
       THEN /\ assigns' = {a \in assigns : a.id \notin dc.assignsSnap}
            /\ dc' = [dc EXCEPT !.pc = "deleteDoc", !.calls = @ + 1]
       ELSE /\ UNCHANGED assigns
            /\ dc' = [dc EXCEPT !.pc = "done", !.calls = @ + 1, !.result = "store-error"]
  /\ UNCHANGED <<contacts, tasks, usedTasks, subtasks, nextId, currentUser, credentials, dt, st, ct, board, docVars, peerVars>>

\* the delete of the contact document without the deleteUser that follows it
\* for the caller's own account
deleteContact_DeleteDoc_NoDeleteUser(ok) ==
  /\ dc.pc = "deleteDoc"
  /\ IF ok
       THEN /\ contacts' = [contacts EXCEPT ![dc.contactId] = "absent"]
            /\ dc' = [dc EXCEPT !.pc = "done", !.calls = @ + 1, !.result = "ok"]
       ELSE /\ UNCHANGED contacts
            /\ dc' = [dc EXCEPT !.pc = "done", !.calls = @ + 1, !.result = "store-error"]
  /\ UNCHANGED <<tasks, usedTasks, assigns, subtasks, nextId, currentUser, credentials,
                 dt, st, ct, board, docVars, peerVars>>

\* await deleteDoc(contactRef)
deleteContact_DeleteDoc(ok) ==
  /\ dc.pc = "deleteDoc"
  /\ IF ok
       THEN /\ contacts' = [contacts EXCEPT ![dc.contactId] = "absent"]
            /\ dc' = IF dc.caller = dc.contactId
                       THEN [dc EXCEPT !.pc = "deleteUser", !.calls = @ + 1]
                       ELSE [dc EXCEPT !.pc = "done", !.calls = @ + 1, !.result = "ok"]
       ELSE /\ UNCHANGED contacts
            /\ dc' = [dc EXCEPT !.pc = "done", !.calls = @ + 1, !.result = "store-error"]
  /\ UNCHANGED <<tasks, usedTasks, assigns, subtasks, nextId, currentUser, credentials, dt, st, ct, board, docVars, peerVars>>

\* await deleteUser(currentUser), which removes the account and signs it
\* out, then router.navigate(['/Login'])
deleteContact_DeleteUser(ok) ==
  /\ dc.pc = "deleteUser"
  /\ IF ok
       THEN /\ currentUser' = NoUser
            /\ credentials' = credentials \ {dc.caller}
            /\ dc' = [dc EXCEPT !.pc = "done", !.result = "ok"]
       ELSE /\ UNCHANGED <<currentUser, credentials>>
            /\ dc' = [dc EXCEPT !.pc = "done", !.result = "auth-error"]
  /\ UNCHANGED <<contacts, tasks, usedTasks, assigns, subtasks, nextId, dt, st, ct, board, docVars, peerVars>>

deleteContact_Return ==
  /\ dc.pc = "done"
  /\ dc' = dcIdle
  /\ UNCHANGED <<storeVars, dt, st, ct, board, peerVars>>

(* ------------------ DialogShowEditTask: switchPage, saveTask ----------- *)
\* the length of a day in the model's seconds
DayLen == 4

Statuses == {"todo", "in_progress", "await_feedback", "done"}

\* addTask's document: the form's fields and status: task.status ?? TaskStatus.ToDo
NewTaskDoc == [status |-> "todo", type |-> "UserStory", title |-> "a",
               description |-> "d", priority |-> 2, date |-> DayLen]

\* new Date(t.date.seconds * 1000).toISOString().split('T')[0]: the UTC day
toISODate(seconds) == seconds \div DayLen

\* Timestamp.fromDate(new Date(editData.date)): midnight UTC of that day
Timestamp_fromDate(day) == day * DayLen

\* editData before the dialog is switched to edit mode
NoForm == [title |-> "", description |-> "", priority |-> 2, date |-> 0 - 1]

\* the four task fields of editData = {...t, date: ...} that saveTask reads
formOf(doc) == [title |-> doc.title, description |-> doc.description,
                priority |-> doc.priority, date |-> toISODate(doc.date)]

\* editTask sends a status as well
editTask_Merge_WithStatus(doc, form) ==
  [doc EXCEPT !.title = form.title, !.description = form.description,
              !.priority = form.priority, !.date = Timestamp_fromDate(form.date),
              !.status = "todo"]

\* updateDoc(ref, {title, description, priority, date}) merges the four fields
\* into the stored document
editTask_Merge(doc, form) ==
  [doc EXCEPT !.title = form.title, !.description = form.description,
              !.priority = form.priority, !.date = Timestamp_fromDate(form.date)]

stIdle == [pc |-> "view", taskId |-> NoId, assigns |-> <<>>, subtasks |-> <<>>,
           form |-> NoForm,
           currentDbAssigns |-> {}, currentDbSubtasks |-> {},
           delTodo |-> {}, addTodo |-> <<>>, result |-> "none"]

NoDup(s) == \A i, j \in 1..Len(s) : s[i] = s[j] => i = j

\* the subcollection replaced wholesale: no stored row is kept
StillExists_Never(desired, dbA) == FALSE

\* editData.assigns.some(fa => fa.contactId === dbA.contactId)
StillExists(desired, dbA) == \E i \in 1..Len(desired) : desired[i] = dbA.contactId

\* currentDbAssigns.some(dbA => dbA.contactId === fa.contactId)
AlreadyInDb(dbAssigns, contactId) == \E dbA \in dbAssigns : dbA.contactId = contactId

\* the match keyed by title and completion flag
TitleStillExists_WithDone(desired, dbS) ==
  \E i \in 1..Len(desired) : desired[i].title = dbS.title /\ desired[i].done = dbS.done

\* editData.subtasks.some(fs => fs.title === dbS.title)
TitleStillExists(desired, dbS) == \E i \in 1..Len(desired) : desired[i].title = dbS.title

\* currentDbSubtasks.some(dbS => dbS.title === fs.title)
TitleAlreadyInDb(dbSubtasks, fs) == \E dbS \in dbSubtasks : dbS.title = fs.title

\* the rows the first loop deletes and the entries the second loop creates
AssignsToDelete(desired, dbAssigns) == {dbA \in dbAssigns : ~StillExists(desired, dbA)}
AssignsToAdd(desired, dbAssigns) ==
  LET Missing(c) == ~AlreadyInDb(dbAssigns, c) IN SelectSeq(desired, Missing)
SubtasksToDelete(desired, dbSubtasks) == {dbS \in dbSubtasks : ~TitleStillExists(desired, dbS)}
SubtasksToAdd(desired, dbSubtasks) ==
  LET Missing(fs) == ~TitleAlreadyInDb(dbSubtasks, fs) IN SelectSeq(desired, Missing)

\* the awaited call saveTask resumes at inside the assignment diff
AssignPc(delTodo, addTodo) ==
  IF delTodo # {} THEN "deleteTaskAssign"
  ELSE IF addTodo # <<>> THEN "addTaskAssign" ELSE "getSubtasks"

\* the awaited call saveTask resumes at inside the subtask diff; after the
\* last one it calls close()
SubtaskPc(delTodo, addTodo) ==
  IF delTodo # {} THEN "deleteSubtask"
  ELSE IF addTodo # <<>> THEN "addSubtask" ELSE "done"

SubtaskResult(delTodo, addTodo) ==
  IF SubtaskPc(delTodo, addTodo) = "done" THEN "closed" ELSE "none"

\* the catch block: console.error, nothing re-thrown, nothing undone
\* a catch that logs the failure and goes on with the subtasks
stCaught_Resume == [st EXCEPT !.pc = "getSubtasks", !.result = "caught"]

stCaught == [st EXCEPT !.pc = "done", !.result = "caught"]

\* open(task) and switchPage(): editData is a copy of the board task, which
\* the form then edits (onSelectionChange over the contacts list, addSubtask,
\* removeSubtask, title edits)
switchPage(taskId, desiredAssigns, desiredSubtasks) ==
  /\ st.pc = "view"
  /\ taskId \in tasks
  /\ \A i \in 1..Len(desiredAssigns) :
        \/ contacts[desiredAssigns[i]] # "absent"
        \/ \E a \in AssignsOf(taskId) : a.contactId = desiredAssigns[i]
  /\ st' = [stIdle EXCEPT !.pc = "editing", !.taskId = taskId,
                          !.assigns = desiredAssigns, !.subtasks = desiredSubtasks,
                          !.form = formOf(taskDocs[taskId])]
  /\ UNCHANGED <<storeVars, dt, dc, ct, board, peerVars>>

\* saveTask up to await this.firebase.editTask(...): updateDoc rejects when
\* the task document does not exist
saveTask_EditTask(ok) ==
  /\ st.pc = "editing"
  /\ IF ok /\ st.taskId \in tasks
       THEN /\ st' = [st EXCEPT !.pc = "getAssigns"]
            /\ taskDocs' = [taskDocs EXCEPT ![st.taskId] = editTask_Merge(@, st.form)]
       ELSE /\ st' = stCaught
            /\ UNCHANGED taskDocs
  /\ UNCHANGED <<contacts, tasks, usedTasks, assigns, subtasks, nextId, currentUser,
                 credentials, contactDocs, dt, dc, ct, board, peerVars>>

\* await firstValueFrom(subTaskAssigns(taskId))
saveTask_GetAssigns(ok) ==
  /\ st.pc = "getAssigns"
  /\ st' = IF ok
             THEN LET db == AssignsOf(st.taskId)
                      del == IdsOf(AssignsToDelete(st.assigns, db))
                      add == AssignsToAdd(st.assigns, db)
                  IN [st EXCEPT !.currentDbAssigns = db, !.delTodo = del,
                                !.addTodo = add, !.pc = AssignPc(del, add)]
             ELSE stCaught
  /\ UNCHANGED <<storeVars, dt, dc, ct, board, peerVars>>

\* a delete inside its own try/catch: a failure is logged and the loop goes
\* on with the next row
saveTask_DeleteTaskAssign_Swallow(id, ok) ==
  /\ st.pc = "deleteTaskAssign"
  /\ id \in st.delTodo
  /\ assigns' = IF ok THEN {a \in assigns : a.id # id} ELSE assigns
  /\ st' = [st EXCEPT !.delTodo = @ \ {id},
                      !.pc = AssignPc(st.delTodo \ {id}, st.addTodo),
                      !.result = IF ok THEN @ ELSE "caught"]
  /\ UNCHANGED <<contacts, tasks, usedTasks, subtasks, nextId, currentUser, credentials,
                 dt, dc, ct, board, docVars, peerVars>>

\* await deleteTaskAssign(taskId, dbA.id) for the next row of the first loop
saveTask_DeleteTaskAssign(id, ok) ==
  /\ st.pc = "deleteTaskAssign"
  /\ id \in st.delTodo
  /\ IF ok
       THEN /\ assigns' = {a \in assigns : a.id # id}
            /\ st' = [st EXCEPT !.delTodo = @ \ {id},
                                !.pc = AssignPc(st.delTodo \ {id}, st.addTodo)]
       ELSE /\ UNCHANGED assigns
            /\ st' = stCaught
  /\ UNCHANGED <<contacts, tasks, usedTasks, subtasks, nextId, currentUser, credentials, dt, dc, ct, board, docVars, peerVars>>

\* await addTaskAssign(taskId, {...}) for the next entry of the second loop
saveTask_AddTaskAssign(ok) ==
  /\ st.pc = "addTaskAssign"
  /\ nextId <= MaxDocs
  /\ IF ok
       THEN /\ assigns' = assigns \cup
                 {[id |-> nextId, task |-> st.taskId, contactId |-> Head(st.addTodo)]}
            /\ nextId' = nextId + 1
            /\ st' = [st EXCEPT !.addTodo = Tail(@),
                                !.pc = AssignPc({}, Tail(st.addTodo))]
       ELSE /\ UNCHANGED <<assigns, nextId>>
            /\ st' = stCaught
  /\ UNCHANGED <<contacts, tasks, usedTasks, subtasks, currentUser, credentials, dt, dc, ct, board, docVars, peerVars>>

\* await firstValueFrom(subSubtasks(taskId))
saveTask_GetSubtasks(ok) ==
  /\ st.pc = "getSubtasks"
  /\ st' = IF ok
             THEN LET db == SubtasksOf(st.taskId)
                      del == IdsOf(SubtasksToDelete(st.subtasks, db))
                      add == SubtasksToAdd(st.subtasks, db)
                  IN [st EXCEPT !.currentDbSubtasks = db, !.delTodo = del,
                                !.addTodo = add, !.pc = SubtaskPc(del, add),
                                !.result = SubtaskResult(del, add)]
             ELSE stCaught
  /\ UNCHANGED <<storeVars, dt, dc, ct, board, peerVars>>

\* await deleteSubtask(taskId, dbS.id) for the next row of the third loop
saveTask_DeleteSubtask(id, ok) ==
  /\ st.pc = "deleteSubtask"
  /\ id \in st.delTodo
  /\ IF ok
       THEN /\ subtasks' = {s \in subtasks : s.id # id}
            /\ st' = [st EXCEPT !.delTodo = @ \ {id},
                                !.pc = SubtaskPc(st.delTodo \ {id}, st.addTodo),
                                !.result = SubtaskResult(st.delTodo \ {id}, st.addTodo)]
       ELSE /\ UNCHANGED subtasks
            /\ st' = stCaught
  /\ UNCHANGED <<contacts, tasks, usedTasks, assigns, nextId, currentUser, credentials, dt, dc, ct, board, docVars, peerVars>>

\* await addSubtask(taskId, {title, done: fs.done || false}) for the next
\* entry of the fourth loop
saveTask_AddSubtask(ok) ==
  /\ st.pc = "addSubtask"
  /\ nextId <= MaxDocs
  /\ IF ok
       THEN /\ subtasks' = subtasks \cup
                 {[id |-> nextId, task |-> st.taskId,
                   title |-> Head(st.addTodo).title, done |-> Head(st.addTodo).done]}
            /\ nextId' = nextId + 1
            /\ st' = [st EXCEPT !.addTodo = Tail(@),
                                !.pc = SubtaskPc({}, Tail(st.addTodo)),
                                !.result = SubtaskResult({}, Tail(st.addTodo))]
       ELSE /\ UNCHANGED <<subtasks, nextId>>
            /\ st' = stCaught
  /\ UNCHANGED <<contacts, tasks, usedTasks, assigns, currentUser, credentials, dt, dc, ct, board, docVars, peerVars>>

(* --------------------------- AddTask.createTask ------------------------ *)
ctIdle == [pc |-> "idle", taskId |-> NoId, assignedTo |-> <<>>, subtasks |-> <<>>,
           result |-> "none"]

\* the awaited call createTask resumes at inside its two loops
CreatePc(assignedTo, subs) ==
  IF assignedTo # <<>> THEN "addTaskAssign"
  ELSE IF subs # <<>> THEN "addSubtask" ELSE "done"

CreateResult(assignedTo, subs) ==
  IF CreatePc(assignedTo, subs) = "done" THEN "added" ELSE "none"

ctFailed == [ct EXCEPT !.pc = "done", !.result = "failed"]

\* createTask up to await this.firebase.addTask(newTask); the form fields
\* are validated first, assignedTo holds contacts toggled from the list
createTask_Call(valid, assignedTo, subs) ==
  /\ ct.pc = "idle"
  /\ NoDup(assignedTo)
  /\ \A i \in 1..Len(assignedTo) : contacts[assignedTo[i]] # "absent"
  /\ ct' = IF valid
             THEN [ctIdle EXCEPT !.pc = "addTask", !.assignedTo = assignedTo,
                                 !.subtasks = subs]
             ELSE [ctIdle EXCEPT !.pc = "done", !.result = "invalid"]
  /\ UNCHANGED <<storeVars, dt, dc, st, board, peerVars>>

\* await addTask(newTask): addDoc generates a new task id
createTask_AddTask(taskId, ok) ==
  /\ ct.pc = "addTask"
  /\ taskId \in TaskIds \ usedTasks
  /\ IF ok
       THEN /\ tasks' = tasks \cup {taskId}
            /\ usedTasks' = usedTasks \cup {taskId}
            /\ taskDocs' = [taskDocs EXCEPT ![taskId] = NewTaskDoc]
            /\ ct' = [ct EXCEPT !.taskId = taskId,
                                !.pc = CreatePc(ct.assignedTo, ct.subtasks),
                                !.result = CreateResult(ct.assignedTo, ct.subtasks)]
       ELSE /\ UNCHANGED <<tasks, usedTasks, taskDocs>>
            /\ ct' = ctFailed
  /\ UNCHANGED <<contacts, assigns, subtasks, nextId, currentUser, credentials, contactDocs,
                 dt, dc, st, board, peerVars>>

\* await getNextColorIndex() and await addTaskAssign(taskId, {...}) for the
\* next contact of assignedTo
createTask_AddTaskAssign(ok) ==
  /\ ct.pc = "addTaskAssign"
  /\ nextId <= MaxDocs
  /\ IF ok
       THEN /\ assigns' = assigns \cup
                 {[id |-> nextId, task |-> ct.taskId, contactId |-> Head(ct.assignedTo)]}
            /\ nextId' = nextId + 1
            /\ ct' = [ct EXCEPT !.assignedTo = Tail(@),
                                !.pc = CreatePc(Tail(ct.assignedTo), ct.subtasks),
                                !.result = CreateResult(Tail(ct.assignedTo), ct.subtasks)]
       ELSE /\ UNCHANGED <<assigns, nextId>>
            /\ ct' = ctFailed
  /\ UNCHANGED <<contacts, tasks, usedTasks, subtasks, currentUser, credentials, dt, dc, st, board, docVars, peerVars>>

\* await addSubtask(taskId, {title, done: false}) for the next subtask
createTask_AddSubtask(ok) ==
  /\ ct.pc = "addSubtask"
  /\ nextId <= MaxDocs
  /\ IF ok
       THEN /\ subtasks' = subtasks \cup
                 {[id |-> nextId, task |-> ct.taskId,
                   title |-> Head(ct.subtasks), done |-> FALSE]}
            /\ nextId' = nextId + 1
            /\ ct' = [ct EXCEPT !.subtasks = Tail(@),
                                !.pc = CreatePc(<<>>, Tail(ct.subtasks)),
                                !.result = CreateResult(<<>>, Tail(ct.subtasks))]
       ELSE /\ UNCHANGED <<subtasks, nextId>>
            /\ ct' = ctFailed
  /\ UNCHANGED <<contacts, tasks, usedTasks, assigns, currentUser, credentials, dt, dc, st, board, docVars, peerVars>>

(* ---------------------- Board.tasks$ and Board.enrichTask -------------- *)
\* a value an observable has not emitted yet, and one it has
None == <<>>
Some(v) == <<v>>

\* subtasks.filter(st => st.done).length; a subtask is held by its done flag
DoneCount(subs) == Cardinality({i \in DOMAIN subs : subs[i]})

\* Math.round(num / den) for num >= 0, den > 0, rounded down
MathRound_Floor(num, den) == num \div den

\* Math.round(num / den) for num >= 0, den > 0: halves round up
MathRound(num, den) == (2 * num + den) \div (2 * den)

\* total === 0 ? 0 : Math.round((done / total) * 100)
Progress(done, total) == IF total = 0 THEN 0 ELSE MathRound(done * 100, total)

\* what docData(contacts/{id}) emits: Undefined while the document does not
\* exist, else the document, of which the join reads name and color; a field
\* the document lacks reads "undefined"
Undefined == <<>>
ContactDoc(name, color) == <<[name |-> name, color |-> color]>>

\* value ?? ''
OrEmpty(value) == IF value = "undefined" THEN "" ELSE value

\* FirebaseServices.toContact: name and color, '' for a missing field
toContact(data) == [name |-> OrEmpty(data[1].name), color |-> OrEmpty(data[1].color)]

\* UserUiService.getInitials on the names of the model: the upper-cased first
\* letter of the first word, followed by that of the last word when there
\* are several, and G for a missing or empty name
getInitials(name) ==
  CASE name \in {"", "undefined"} -> "G"
    [] name = "Ann" -> "A"
    [] name = "Bob" -> "B"
    [] name = "Bob Ray" -> "BR"

\* the map() without its branch for a document that does not exist: the
\* fields are read from undefined
TaskAssignOf_NoSentinel(contactId, contact) ==
  LET c == IF contact # Undefined THEN toContact(contact)
                                  ELSE [name |-> "undefined", color |-> "undefined"]
  IN [contactId |-> contactId, name |-> c.name, initials |-> getInitials(c.name),
      color |-> c.color]

\* the map() of one assignObservable: the TaskAssign of assignment row a for
\* the contact emission, with the sentinel for a document that does not exist
TaskAssignOf(contactId, contact) ==
  LET c == IF contact # Undefined THEN toContact(contact) ELSE [name |-> "", color |-> ""]
  IN [contactId |-> contactId, name |-> OrEmpty(c.name),
      initials |-> getInitials(OrEmpty(c.name)), color |-> OrEmpty(c.color)]

\* the BoardTask literal of enrichTask, built from the captured snapshots
BoardTaskOf(taskId, mappedAssigns, subs) ==
  [id |-> taskId, assigns |-> mappedAssigns, subtasks |-> subs,
   subtasksDone |-> DoneCount(subs), subtasksTotal |-> Len(subs),
   progress |-> Progress(DoneCount(subs), Len(subs))]

\* a join that is not subscribed, and one that has just been subscribed
joinOff == [active |-> FALSE, subtasks |-> None, assigns |-> None, inner |-> None, out |-> None]
joinOn == [joinOff EXCEPT !.active = TRUE]

\* a subscription of Board.tasks$ that has just been made: authState has
\* not emitted yet
boardInit == [subscribed |-> TRUE, session |-> None, taskSub |-> FALSE, taskSnap |-> None,
              joins |-> [t \in TaskIds |-> joinOff], lastEmit |-> None]

\* a column view that has just been subscribed: a new run of tasks$ behind
\* it, no list delivered; status is the status each task had in the run's
\* task snapshot.  A view nobody has subscribed is None
viewOn == [run |-> boardInit, status |-> [t \in TaskIds |-> "todo"], list |-> None]

\* the subscriber subscribes (again): a cold observable starts anew
tasks_Subscribe ==
  /\ ~board.subscribed
  /\ board' = boardInit
  /\ UNCHANGED cascadeVars

\* an unsubscription that stops the delivery but leaves the inner
\* subscriptions running
tasks_Unsubscribe_Leak ==
  /\ board.subscribed
  /\ board' = [board EXCEPT !.subscribed = FALSE]
  /\ UNCHANGED cascadeVars

\* the subscriber unsubscribes: the chain of switchMaps unsubscribes the
\* session signal, the task collection and every join; the subscriber keeps
\* the list it received last
tasks_Unsubscribe ==
  /\ board.subscribed
  /\ board' = [boardInit EXCEPT !.subscribed = FALSE, !.lastEmit = board.lastEmit]
  /\ UNCHANGED cascadeVars

\* the stream subscriptions a subscription of Board.tasks$ holds: the task
\* collection, and per join its subtasks, its assignments and one contact
\* per row of the assignment snapshot it projected last
JoinSubscriptions(j) ==
  IF ~j.active THEN 0
  ELSE 2 + (IF j.inner = None THEN 0 ELSE Len(j.inner[1].assigns))

RECURSIVE SumJoins(_, _)
SumJoins(joins, ids) ==
  IF ids = {} THEN 0
  ELSE LET t == CHOOSE x \in ids : TRUE
       IN JoinSubscriptions(joins[t]) + SumJoins(joins, ids \ {t})

LiveSubscriptions(b) == (IF b.taskSub THEN 1 ELSE 0) + SumJoins(b.joins, TaskIds)

\* the projection without its branch for a task without assignments:
\* combineLatest of no streams never emits
enrichTask_Project_NoEmptyCase(j, taskId, subs, asg) ==
  [j EXCEPT !.inner = Some([subtasks |-> subs, assigns |-> asg,
                            contacts |-> [i \in 1..Len(asg) |-> None]])]

\* the projection of an exhaustMap: a snapshot pair that arrives while the
\* contacts of the previous one are subscribed is ignored
enrichTask_Project_Exhaust(j, taskId, subs, asg) ==
  IF j.inner # None
    THEN j
    ELSE IF Len(asg) = 0
      THEN [j EXCEPT !.out = Some(BoardTaskOf(taskId, <<>>, subs))]
      ELSE [j EXCEPT !.inner = Some([subtasks |-> subs, assigns |-> asg,
                                     contacts |-> [i \in 1..Len(asg) |-> None]])]

\* the projection function of enrichTask's switchMap, run on the latest
\* [subtasks, assigns] pair: the previous inner observable is unsubscribed;
\* without assignments of(...) emits at once, otherwise one subSingleContact
\* per assignment is subscribed and nothing is emitted yet
enrichTask_Project(j, taskId, subs, asg) ==
  IF Len(asg) = 0
    THEN [j EXCEPT !.inner = None, !.out = Some(BoardTaskOf(taskId, <<>>, subs))]
    ELSE [j EXCEPT !.inner = Some([subtasks |-> subs, assigns |-> asg,
                                   contacts |-> [i \in 1..Len(asg) |-> None]])]

\* a combination that emits the values of the joins that have emitted,
\* without waiting for the others
CombineJoins_Emitted(joins, snap, lastEmit) ==
  LET ready == SelectSeq(snap, LAMBDA t : joins[t].out # None)
  IN Some([i \in 1..Len(ready) |-> joins[ready[i]].out[1]])

\* combineLatest(tasks.map(enrichTask)): emits the joins' latest values, in
\* the order of the task snapshot, once every join has emitted
CombineJoins(joins, snap, lastEmit) ==
  IF \A i \in 1..Len(snap) : joins[snap[i]].out # None
    THEN Some([i \in 1..Len(snap) |-> joins[snap[i]].out[1]])
    ELSE lastEmit

\* the outer switchMap without its `if (!user) return of([])`
authState_Emit_NoGate(user) ==
  /\ board.subscribed
  /\ board' = [board EXCEPT !.session = Some(user),
                            !.taskSub = TRUE,
                            !.taskSnap = None,
                            !.joins = [t \in TaskIds |-> joinOff]]
  /\ UNCHANGED cascadeVars

\* authState emits: the outer switchMap unsubscribes the previous inner
\* observable; without a user of([]) is emitted, with one subTasks() is
\* subscribed
authState_Emit(user) ==
  /\ board.subscribed
  /\ board' = [board EXCEPT !.session = Some(user),
                            !.taskSub = (user # NoUser),
                            !.taskSnap = None,
                            !.joins = [t \in TaskIds |-> joinOff],
                            !.lastEmit = IF user = NoUser THEN Some(<<>>) ELSE @]
  /\ UNCHANGED cascadeVars

\* the snapshot handled by a mergeMap: the joins of the previous snapshot
\* stay subscribed
subTasks_Emit_KeepJoins(snap) ==
  /\ board.taskSub
  /\ board' = [board EXCEPT !.taskSnap = Some(snap),
                            !.joins = [t \in TaskIds |->
                                         IF t \in Range(snap) THEN joinOn ELSE @[t]],
                            !.lastEmit = IF Len(snap) = 0 THEN Some(<<>>) ELSE @]
  /\ UNCHANGED cascadeVars

\* subTasks() emits a snapshot: the inner switchMap unsubscribes the joins;
\* an empty snapshot emits of([]), otherwise one enrichTask per task is
\* subscribed
subTasks_Emit(snap) ==
  /\ board.taskSub
  /\ board' = [board EXCEPT !.taskSnap = Some(snap),
                            !.joins = [t \in TaskIds |->
                                         IF t \in Range(snap) THEN joinOn ELSE joinOff],
                            !.lastEmit = IF Len(snap) = 0 THEN Some(<<>>) ELSE @]
  /\ UNCHANGED cascadeVars

\* a join's step, followed by the aggregator's combineLatest
JoinStep(taskId, j) ==
  LET joins == [board.joins EXCEPT ![taskId] = j]
  IN board' = [board EXCEPT !.joins = joins,
                            !.lastEmit = IF j.out # board.joins[taskId].out
                                              \/ j.inner = None
                                           THEN CombineJoins(joins, board.taskSnap[1], @)
                                           ELSE @]

\* subSubtasks(task.id) emits a snapshot
subSubtasks_Emit(taskId, subs) ==
  /\ board.joins[taskId].active
  /\ LET j == [board.joins[taskId] EXCEPT !.subtasks = Some(subs)]
     IN IF j.assigns = None
          THEN board' = [board EXCEPT !.joins[taskId] = j]
          ELSE JoinStep(taskId, enrichTask_Project(j, taskId, subs, j.assigns[1]))
  /\ UNCHANGED cascadeVars

\* subTaskAssigns(task.id) emits a snapshot
subTaskAssigns_Emit(taskId, asg) ==
  /\ board.joins[taskId].active
  /\ LET j == [board.joins[taskId] EXCEPT !.assigns = Some(asg)]
     IN IF j.subtasks = None
          THEN board' = [board EXCEPT !.joins[taskId] = j]
          ELSE JoinStep(taskId, enrichTask_Project(j, taskId, j.subtasks[1], asg))
  /\ UNCHANGED cascadeVars

\* the mapped assigns without the rows whose contact document does not exist
MappedAssigns_DropMissing(inner) ==
  LET kept == {i \in 1..Len(inner.assigns) : inner.contacts[i][1] # Undefined}
      nth[k \in 0..Len(inner.assigns)] ==
        IF k = 0 THEN 0 ELSE CHOOSE i \in kept : i > nth[k - 1] /\ \A m \in kept : m > nth[k - 1] => i <= m
  IN [k \in 1..Cardinality(kept) |->
        TaskAssignOf(inner.assigns[nth[k]], inner.contacts[nth[k]][1])]

\* the mapped assigns of the inner combineLatest(assignObservables)
MappedAssigns(inner) ==
  [i \in 1..Len(inner.assigns) |->
     TaskAssignOf(inner.assigns[i], inner.contacts[i][1])]

\* subSingleContact(a.contactId) of the i-th assignment emits; the inner
\* combineLatest emits once every contact has
subSingleContact_Emit(taskId, i, contact) ==
  /\ board.joins[taskId].active
  /\ board.joins[taskId].inner # None
  /\ i \in 1..Len(board.joins[taskId].inner[1].assigns)
  /\ LET old == board.joins[taskId]
         inner == [old.inner[1] EXCEPT !.contacts[i] = Some(contact)]
         emits == \A k \in 1..Len(inner.assigns) : inner.contacts[k] # None
         j == [old EXCEPT !.inner = Some(inner),
                          !.out = IF emits
                                    THEN Some(BoardTaskOf(taskId, MappedAssigns(inner),
                                                          inner.subtasks))
                                    ELSE @]
     IN IF emits
          THEN board' = [board EXCEPT !.joins[taskId] = j,
                            !.lastEmit = CombineJoins([board.joins EXCEPT ![taskId] = j],
                                                      board.taskSnap[1], @)]
          ELSE board' = [board EXCEPT !.joins[taskId] = j]
  /\ UNCHANGED cascadeVars

(* --------------------------- the specifications ------------------------ *)
\* the rows a form can hold for a subtask
SubtaskInputs == [title : Titles, done : BOOLEAN]

\* a store the application has reached: one task with one assignee and one
\* open subtask
\* every task document as addTask wrote it, every contact named Ann, no
\* second save pending, no column view subscribed
InitRest ==
  /\ taskDocs = [t \in TaskIds |-> NewTaskDoc]
  /\ contactDocs = [c \in ContactIds \cup {"c3"} |-> [name |-> "Ann", color |-> "red"]]
  /\ st2 = None
  /\ views = [v \in Statuses |-> None]

InitStore ==
  /\ tasks = {"t1"}
  /\ usedTasks = {"t1"}
  /\ assigns = {[id |-> 1, task |-> "t1", contactId |-> "c1"]}
  /\ subtasks = {[id |-> 2, task |-> "t1", title |-> "x", done |-> FALSE]}
  /\ nextId = 3

\* two contacts, of which c1 is a registered account, and any session
InitContacts ==
  /\ \E k \in {"plain", "user"} :
        contacts = [c \in ContactIds |-> IF c = "c1" THEN "user" ELSE k]
  /\ currentUser \in {NoUser} \cup {c \in ContactIds : contacts[c] = "user"}
  /\ credentials = {c \in DOMAIN contacts : contacts[c] = "user"}

InitIdle ==
  /\ InitRest
  /\ board = boardInit
  /\ dt = dtIdle
  /\ dc = dcIdle
  /\ st = stIdle
  /\ ct = ctIdle

deleteTaskWithChildren ==
  \/ \E taskId \in TaskIds \cup {NoId} : deleteTaskWithChildren_Call(taskId)
  \/ \E ok \in BOOLEAN : deleteTaskWithChildren_GetSubtasks(ok)
  \/ \E ok \in BOOLEAN : deleteTaskWithChildren_GetAssigns(ok)
  \/ \E ok \in BOOLEAN : deleteTaskWithChildren_Commit(ok)
  \/ deleteTaskWithChildren_Return

deleteContact ==
  \/ \E contactId \in ContactIds \cup {NoId} : deleteContact_Call(contactId)
  \/ \E ok \in BOOLEAN : deleteContact_GetDoc(ok)
  \/ \E ok \in BOOLEAN : deleteContact_GetAssigns(ok)
  \/ \E ok \in BOOLEAN : deleteContact_Commit(ok)
  \/ \E ok \in BOOLEAN : deleteContact_DeleteDoc(ok)
  \/ \E ok \in BOOLEAN : deleteContact_DeleteUser(ok)
  \/ deleteContact_Return

saveTask ==
  \/ \E ok \in BOOLEAN : saveTask_EditTask(ok)
  \/ \E ok \in BOOLEAN : saveTask_GetAssigns(ok)
  \/ \E id \in 1..MaxDocs, ok \in BOOLEAN : saveTask_DeleteTaskAssign(id, ok)
  \/ \E ok \in BOOLEAN : saveTask_AddTaskAssign(ok)
  \/ \E ok \in BOOLEAN : saveTask_GetSubtasks(ok)
  \/ \E id \in 1..MaxDocs, ok \in BOOLEAN : saveTask_DeleteSubtask(id, ok)
  \/ \E ok \in BOOLEAN : saveTask_AddSubtask(ok)

createTask ==
  \/ \E taskId \in TaskIds, ok \in BOOLEAN : createTask_AddTask(taskId, ok)
  \/ \E ok \in BOOLEAN : createTask_AddTaskAssign(ok)
  \/ \E ok \in BOOLEAN : createTask_AddSubtask(ok)

\* the rows of a form whose subtasks are all open
OpenSubtaskInputs == [title : Titles, done : {FALSE}]

\* a second client, whose one modal form is either the edit dialog of a task
\* or the add-task form; it submits the form once
secondClient ==
  \/ /\ ct.pc = "idle"
     /\ \E taskId \in TaskIds, desiredAssigns \in SeqsUpTo(ContactIds, MaxRace),
           desiredSubtasks \in SeqsUpTo(OpenSubtaskInputs, MaxRace) :
           switchPage(taskId, desiredAssigns, desiredSubtasks)
  \/ saveTask
  \/ /\ st.pc = "view"
     /\ \E valid \in BOOLEAN, assignedTo \in SeqsUpTo(ContactIds, MaxRace),
           subs \in SeqsUpTo(Titles, MaxRace) : createTask_Call(valid, assignedTo, subs)
  \/ createTask

\* Spec: the two delete cascades, called any number of times on one store
Init ==
  /\ InitContacts
  /\ InitStore
  /\ InitIdle

Next ==
  \/ deleteTaskWithChildren
  \/ deleteContact

Spec == Init /\ [][Next]_vars

\* SpecTask: deleteTaskWithChildren racing with the second client's writes
\* to the task's subcollections
NextTask ==
  \/ deleteTaskWithChildren
  \/ secondClient

SpecTask == Init /\ [][NextTask]_vars

\* SpecContact: deleteContact racing with the second client's writes
NextContact ==
  \/ deleteContact
  \/ secondClient

SpecContact == Init /\ [][NextContact]_vars

\* SpecSave: one saveTask on a task nobody else writes to, for every stored
\* assignment set with every desired assignee list, and for every stored
\* subtask set with every desired subtask list
StoredAssigns(f) == {[id |-> i, task |-> "t1", contactId |-> f[i]] : i \in DOMAIN f}

StoredSubtasks(g, base) ==
  {[id |-> base + i, task |-> "t1", title |-> g[i].title, done |-> g[i].done] : i \in DOMAIN g}

SaveContactIds == ContactIds \cup {"c3"}

InitSave ==
  /\ contacts = [c \in SaveContactIds |-> "plain"]
  /\ currentUser = NoUser
  /\ credentials = {c \in DOMAIN contacts : contacts[c] = "user"}
  /\ tasks = {"t1"}
  /\ usedTasks = {"t1"}
  /\ dt = dtIdle
  /\ dc = dcIdle
  /\ ct = ctIdle
  /\ board = boardInit
  /\ InitRest
  /\ \/ \E f \in SeqsUpTo(SaveContactIds, MaxStored),
           desired \in SeqsUpTo(SaveContactIds, MaxDesired) :
          /\ assigns = StoredAssigns(f)
          /\ subtasks = StoredSubtasks(<<[title |-> "x", done |-> FALSE]>>, Len(f))
          /\ nextId = Len(f) + 2
          /\ st = [stIdle EXCEPT !.pc = "editing", !.taskId = "t1", !.assigns = desired,
                                 !.form = formOf(NewTaskDoc),
                                 !.subtasks = <<[title |-> "y", done |-> FALSE]>>]
     \/ \E g \in SeqsUpTo(SubtaskInputs, MaxStored),
           desired \in SeqsUpTo(SubtaskInputs, MaxDesired) :
          /\ assigns = StoredAssigns(<<"c1">>)
          /\ subtasks = StoredSubtasks(g, 1)
          /\ nextId = Len(g) + 2
          /\ st = [stIdle EXCEPT !.pc = "editing", !.taskId = "t1", !.assigns = <<"c2">>,
                                 !.form = formOf(NewTaskDoc),
                                 !.subtasks = desired]

SpecSave == InitSave /\ [][saveTask]_vars

\* SpecRepeat: deleteTaskWithChildren called once or twice in a row by the
\* only client, on task t1 with any stored children next to a task t2
InitRepeat ==
  /\ contacts = [c \in ContactIds |-> "plain"]
  /\ currentUser = NoUser
  /\ credentials = {c \in DOMAIN contacts : contacts[c] = "user"}
  /\ tasks = TaskIds
  /\ usedTasks = TaskIds
  /\ InitIdle
  /\ \E f \in SeqsUpTo(ContactIds, MaxStored), g \in SeqsUpTo(OpenSubtaskInputs, MaxStored) :
        /\ assigns = StoredAssigns(f)
        /\ subtasks = StoredSubtasks(g, Len(f))
                        \cup {[id |-> Len(f) + Len(g) + 1, task |-> "t2",
                                title |-> "x", done |-> FALSE]}
        /\ nextId = Len(f) + Len(g) + 2

NextRepeat ==
  \/ deleteTaskWithChildren
  \/ deleteTaskWithChildren_CallAgain

SpecRepeat == InitRepeat /\ [][NextRepeat]_vars

\* the snapshots a subtask stream emits: done flags, completed ones first
\* (the join counts them and is indifferent to their order)
SubtaskSnaps(n) ==
  {[i \in 1..k |-> i <= d] : <<k, d>> \in {<<k, d>> \in (0..n) \X (0..n) : d <= k}}

\* the contact documents a contact stream emits
ContactDocs == {Undefined, ContactDoc("Ann", "red")}

\* SpecJoin: one enrichTask join, subscribed for task t1 of an authenticated
\* board, fed by its subtask, assignment and contact streams
InitJoin ==
  /\ contacts = [c \in ContactIds |-> IF c = "c1" THEN "user" ELSE "plain"]
  /\ currentUser = "c1"
  /\ credentials = {c \in DOMAIN contacts : contacts[c] = "user"}
  /\ InitStore
  /\ dt = dtIdle
  /\ dc = dcIdle
  /\ st = stIdle
  /\ ct = ctIdle
  /\ InitRest
  /\ board = [boardInit EXCEPT !.session = Some("c1"), !.taskSub = TRUE,
                               !.taskSnap = Some(<<"t1">>), !.joins["t1"] = joinOn]

NextJoin ==
  \/ \E subs \in SubtaskSnaps(MaxSubtasks) : subSubtasks_Emit("t1", subs)
  \/ \E asg \in SeqsUpTo({"c1"}, MaxAssigns) : subTaskAssigns_Emit("t1", asg)
  \/ \E i \in 1..MaxAssigns, contact \in ContactDocs : subSingleContact_Emit("t1", i, contact)

SpecJoin == InitJoin /\ [][NextJoin]_vars

\* SpecRows: one enrichTask join for task t1, which has no subtasks, whose
\* assignment snapshots hold up to MaxRows rows naming any contact, each
\* row's contact stream emitting no document, a complete document or one
\* without a color
RowDocs == {Undefined, ContactDoc("Ann", "red"), ContactDoc("Bob", "undefined")}

NextRows ==
  \/ \E subs \in SubtaskSnaps(0) : subSubtasks_Emit("t1", subs)
  \/ \E asg \in SeqsUpTo(ContactIds, MaxRows) : subTaskAssigns_Emit("t1", asg)
  \/ \E i \in 1..MaxRows, contact \in RowDocs : subSingleContact_Emit("t1", i, contact)

SpecRows == InitJoin /\ [][NextRows]_vars

\* SpecBoard: the aggregator from its subscription on, with up to two tasks
\* whose streams emit small snapshots
BoardTaskSnaps == {snap \in SeqsUpTo(TaskIds, 2) : NoDup(snap)}

NextBoard ==
  \/ \E user \in {NoUser, "c1"} : authState_Emit(user)
  \/ \E snap \in BoardTaskSnaps : subTasks_Emit(snap)
  \/ \E taskId \in TaskIds, subs \in SubtaskSnaps(1) : subSubtasks_Emit(taskId, subs)
  \/ \E taskId \in TaskIds, asg \in SeqsUpTo({"c1"}, 1) : subTaskAssigns_Emit(taskId, asg)
  \/ \E taskId \in TaskIds, contact \in ContactDocs :
        subSingleContact_Emit(taskId, 1, contact)

InitBoard ==
  /\ contacts = [c \in ContactIds |-> IF c = "c1" THEN "user" ELSE "plain"]
  /\ currentUser = NoUser
  /\ credentials = {c \in DOMAIN contacts : contacts[c] = "user"}
  /\ InitStore
  /\ InitIdle

SpecBoard == InitBoard /\ [][NextBoard]_vars

\* SpecLife: a subscriber that subscribes to Board.tasks$ and unsubscribes
\* from it any number of times, while tasks without subtasks, assigned to
\* an existing contact or to nobody, come and go
NextLife ==
  \/ tasks_Subscribe
  \/ tasks_Unsubscribe
  \/ \E user \in {NoUser, "c1"} : authState_Emit(user)
  \/ \E snap \in BoardTaskSnaps : subTasks_Emit(snap)
  \/ \E taskId \in TaskIds, subs \in SubtaskSnaps(0) : subSubtasks_Emit(taskId, subs)
  \/ \E taskId \in TaskIds, asg \in SeqsUpTo({"c1"}, MaxAssigns) :
        subTaskAssigns_Emit(taskId, asg)
  \/ \E taskId \in TaskIds, i \in 1..MaxAssigns :
        subSingleContact_Emit(taskId, i, ContactDoc("Ann", "red"))

SpecLife == InitBoard /\ [][NextLife]_vars

(* ----------------- two saveTask calls on the same task ----------------- *)
\* the event loop resumes the other pending saveTask: st is the call that
\* runs next, st2 the call that waits at its await
saveTask_Yield ==
  /\ st2 # None
  /\ st2[1].pc \notin {"view", "done"}
  /\ st' = st2[1]
  /\ st2' = Some(st)
  /\ UNCHANGED <<storeVars, dt, dc, ct, board, views>>

\* SpecRace: two edit dialogs on task t1 have both been saved; both forms
\* select contact c1, which the task does not have yet, and one of them
\* replaces the subtask
InitRace ==
  /\ contacts = [c \in SaveContactIds |-> "plain"]
  /\ currentUser = NoUser
  /\ credentials = {}
  /\ tasks = {"t1"}
  /\ usedTasks = {"t1"}
  /\ dt = dtIdle
  /\ dc = dcIdle
  /\ ct = ctIdle
  /\ board = boardInit
  /\ taskDocs = [t \in TaskIds |-> NewTaskDoc]
  /\ contactDocs = [c \in SaveContactIds |-> [name |-> "Ann", color |-> "red"]]
  /\ views = [v \in Statuses |-> None]
  /\ \E f \in {<<>>, <<"c2">>} :
        /\ assigns = StoredAssigns(f)
        /\ subtasks = StoredSubtasks(<<[title |-> "x", done |-> FALSE]>>, Len(f))
        /\ nextId = Len(f) + 2
        /\ st = [stIdle EXCEPT !.pc = "editing", !.taskId = "t1", !.assigns = <<"c1">>,
                               !.form = formOf(NewTaskDoc),
                               !.subtasks = <<[title |-> "y", done |-> FALSE]>>]
        /\ st2 = Some([stIdle EXCEPT !.pc = "editing", !.taskId = "t1",
                                     !.assigns = <<"c1">>, !.form = formOf(NewTaskDoc),
                                     !.subtasks = <<[title |-> "x", done |-> FALSE]>>])

NextRace ==
  \/ saveTask
  \/ saveTask_Yield

SpecRace == InitRace /\ [][NextRace]_vars

(* ------------------- Board.drop and the edit form ---------------------- *)
\* updateDoc(ref, {status}) merges the status into the stored document
updateTaskStatus_Merge(doc, status) == [doc EXCEPT !.status = status]

\* Board.drop(event, status): await updateTaskStatus(task.id, status), whose
\* updateDoc rejects when the task document is gone
drop(taskId, status, ok) ==
  /\ taskId # NoId
  /\ IF ok /\ taskId \in tasks
       THEN taskDocs' = [taskDocs EXCEPT ![taskId] = updateTaskStatus_Merge(@, status)]
       ELSE UNCHANGED taskDocs
  /\ UNCHANGED <<contacts, tasks, usedTasks, assigns, subtasks, nextId, currentUser,
                 credentials, contactDocs, dt, dc, st, ct, board, peerVars>>

\* the inputs of the edit form (ngModel on editData, setPrio)
Forms == [title : {"a", "b"}, description : {"d"}, priority : {2, 3}, date : {1, 2}]

editForm(form) ==
  /\ st.pc = "editing"
  /\ st' = [st EXCEPT !.form = form]
  /\ UNCHANGED <<storeVars, dt, dc, ct, board, peerVars>>

\* SpecStatus: task t1 in any column, last saved at midnight or later that
\* day, is dragged between the columns while its edit dialog is opened,
\* edited and saved with its assignments and subtasks left as stored
InitStatus ==
  /\ contacts = [c \in ContactIds |-> "plain"]
  /\ currentUser = NoUser
  /\ credentials = {}
  /\ InitStore
  /\ dt = dtIdle
  /\ dc = dcIdle
  /\ st = stIdle
  /\ ct = ctIdle
  /\ board = boardInit
  /\ contactDocs = [c \in SaveContactIds |-> [name |-> "Ann", color |-> "red"]]
  /\ st2 = None
  /\ views = [v \in Statuses |-> None]
  /\ \E status \in Statuses, date \in {DayLen, DayLen + 1} :
        taskDocs = [t \in TaskIds |->
                      [NewTaskDoc EXCEPT !.status = status, !.date = date]]

NextStatus ==
  \/ \E taskId \in TaskIds, status \in Statuses, ok \in BOOLEAN : drop(taskId, status, ok)
  \/ switchPage("t1", <<"c1">>, <<[title |-> "x", done |-> FALSE]>>)
  \/ \E form \in Forms : editForm(form)
  \/ \E ok \in BOOLEAN : saveTask_EditTask(ok)
  \/ \E ok \in BOOLEAN : saveTask_GetAssigns(ok)
  \/ \E ok \in BOOLEAN : saveTask_GetSubtasks(ok)

SpecStatus == InitStatus /\ [][NextStatus]_vars

(* --------- the aggregator fed by the store: pure steps of one run ------- *)
\* the order in which collectionData lists the task documents
TaskOrder == <<"t1", "t2">>

RECURSIVE SortedById(_)
SortedById(docs) ==
  IF docs = {} THEN <<>>
  ELSE LET d == CHOOSE x \in docs : \A y \in docs : x.id <= y.id
       IN <<d>> \o SortedById(docs \ {d})

\* what the listeners of the store deliver: the task ids, a task's subtasks
\* (their done flags), a task's assignments (their contactIds) and a
\* contact's document
TaskSnapshot == SelectSeq(TaskOrder, LAMBDA t : t \in tasks)
SubtaskSnapshot(t) ==
  LET docs == SortedById(SubtasksOf(t)) IN [i \in 1..Len(docs) |-> docs[i].done]
AssignSnapshot(t) ==
  LET docs == SortedById(AssignsOf(t)) IN [i \in 1..Len(docs) |-> docs[i].contactId]
ContactSnapshot(c) ==
  IF contacts[c] = "absent" THEN Undefined
  ELSE ContactDoc(contactDocs[c].name, contactDocs[c].color)

\* authState emits in run r (the outer switchMap of tasks$)
run_Auth(r, user) ==
  [r EXCEPT !.session = Some(user),
            !.taskSub = (user # NoUser),
            !.taskSnap = None,
            !.joins = [t \in TaskIds |-> joinOff],
            !.lastEmit = IF user = NoUser THEN Some(<<>>) ELSE @]

\* subTasks() emits in run r (the inner switchMap of tasks$)
run_Tasks(r, snap) ==
  [r EXCEPT !.taskSnap = Some(snap),
            !.joins = [t \in TaskIds |-> IF t \in Range(snap) THEN joinOn ELSE joinOff],
            !.lastEmit = IF Len(snap) = 0 THEN Some(<<>>) ELSE @]

\* a join's step in run r, followed by the aggregator's combineLatest
run_JoinStep(r, taskId, j) ==
  LET joins == [r.joins EXCEPT ![taskId] = j]
  IN [r EXCEPT !.joins = joins,
               !.lastEmit = IF j.out # r.joins[taskId].out \/ j.inner = None
                              THEN CombineJoins(joins, r.taskSnap[1], @)
                              ELSE @]

\* subSubtasks(task.id) emits in run r
run_Subtasks(r, taskId, subs) ==
  LET j == [r.joins[taskId] EXCEPT !.subtasks = Some(subs)]
  IN IF j.assigns = None
       THEN [r EXCEPT !.joins[taskId] = j]
       ELSE run_JoinStep(r, taskId, enrichTask_Project(j, taskId, subs, j.assigns[1]))

\* subTaskAssigns(task.id) emits in run r
run_Assigns(r, taskId, asg) ==
  LET j == [r.joins[taskId] EXCEPT !.assigns = Some(asg)]
  IN IF j.subtasks = None
       THEN [r EXCEPT !.joins[taskId] = j]
       ELSE run_JoinStep(r, taskId, enrichTask_Project(j, taskId, j.subtasks[1], asg))

\* subSingleContact of the i-th assignment emits in run r
run_Contact(r, taskId, i, contact) ==
  LET old == r.joins[taskId]
      inner == [old.inner[1] EXCEPT !.contacts[i] = Some(contact)]
      emits == \A k \in 1..Len(inner.assigns) : inner.contacts[k] # None
      j == [old EXCEPT !.inner = Some(inner),
                       !.out = IF emits
                                 THEN Some(BoardTaskOf(taskId, MappedAssigns(inner),
                                                       inner.subtasks))
                                 ELSE @]
  IN IF emits
       THEN [r EXCEPT !.joins[taskId] = j,
                      !.lastEmit = CombineJoins([r.joins EXCEPT ![taskId] = j],
                                                r.taskSnap[1], @)]
       ELSE [r EXCEPT !.joins[taskId] = j]

(* ------------- Board.tasks$ subscribed to the store's listeners -------- *)
\* authState delivers the session to the subscription
board_AuthState ==
  /\ board.subscribed
  /\ board.session # Some(currentUser)
  /\ board' = run_Auth(board, currentUser)
  /\ UNCHANGED cascadeVars

\* the task collection's listener delivers its first or a changed snapshot
board_Tasks ==
  /\ board.taskSub
  /\ board.taskSnap # Some(TaskSnapshot)
  /\ board' = run_Tasks(board, TaskSnapshot)
  /\ UNCHANGED cascadeVars

board_Subtasks(taskId) ==
  /\ board.joins[taskId].active
  /\ board.joins[taskId].subtasks # Some(SubtaskSnapshot(taskId))
  /\ board' = run_Subtasks(board, taskId, SubtaskSnapshot(taskId))
  /\ UNCHANGED cascadeVars

board_Assigns(taskId) ==
  /\ board.joins[taskId].active
  /\ board.joins[taskId].assigns # Some(AssignSnapshot(taskId))
  /\ board' = run_Assigns(board, taskId, AssignSnapshot(taskId))
  /\ UNCHANGED cascadeVars

\* a contact stream that emits the document once and completes
board_Contact_Once(taskId, i) ==
  /\ board.joins[taskId].active
  /\ board.joins[taskId].inner # None
  /\ i \in 1..Len(board.joins[taskId].inner[1].assigns)
  /\ board.joins[taskId].inner[1].contacts[i] = None
  /\ board' = run_Contact(board, taskId, i,
                          ContactSnapshot(board.joins[taskId].inner[1].assigns[i]))
  /\ UNCHANGED cascadeVars

\* the listener of the i-th assignment's contact document delivers the
\* document for the first time or after it changed
board_Contact(taskId, i) ==
  /\ board.joins[taskId].active
  /\ board.joins[taskId].inner # None
  /\ i \in 1..Len(board.joins[taskId].inner[1].assigns)
  /\ board.joins[taskId].inner[1].contacts[i] #
        Some(ContactSnapshot(board.joins[taskId].inner[1].assigns[i]))
  /\ board' = run_Contact(board, taskId, i,
                          ContactSnapshot(board.joins[taskId].inner[1].assigns[i]))
  /\ UNCHANGED cascadeVars

\* FirebaseServices.editContact: updateDoc rejects when the document is gone
editContact(contactId, name, color, ok) ==
  /\ contactId # NoId
  /\ IF ok /\ contacts[contactId] # "absent"
       THEN contactDocs' = [contactDocs EXCEPT ![contactId] = [name |-> name, color |-> color]]
       ELSE UNCHANGED contactDocs
  /\ UNCHANGED <<contacts, tasks, usedTasks, assigns, subtasks, nextId, currentUser,
                 credentials, taskDocs, dt, dc, st, ct, board, peerVars>>

\* SpecRename: the board of the signed-in user c1 over two tasks that both
\* assign c1 (t1 also c2), while c1 is renamed and recoloured; as long as a
\* listener has something to deliver, one of them delivers
InitRename ==
  /\ contacts = [c \in ContactIds |-> IF c = "c1" THEN "user" ELSE "plain"]
  /\ currentUser = "c1"
  /\ credentials = {"c1"}
  /\ tasks = {"t1", "t2"}
  /\ usedTasks = {"t1", "t2"}
  /\ assigns = {[id |-> 1, task |-> "t1", contactId |-> "c1"],
                [id |-> 2, task |-> "t2", contactId |-> "c1"],
                [id |-> 3, task |-> "t1", contactId |-> "c2"]}
  /\ subtasks = {}
  /\ nextId = 4
  /\ InitIdle

Renames == {"Ann", "Bob Ray"} \X {"red", "blue"}

board_Deliver ==
  \/ board_AuthState
  \/ board_Tasks
  \/ \E t \in TaskIds : board_Subtasks(t)
  \/ \E t \in TaskIds : board_Assigns(t)
  \/ \E t \in TaskIds, i \in 1..MaxRows : board_Contact(t, i)

NextRename ==
  \/ board_Deliver
  \/ \E n \in Renames, ok \in BOOLEAN : editContact("c1", n[1], n[2], ok)

SpecRename == InitRename /\ [][NextRename]_vars /\ WF_vars(board_Deliver)

(* ------------- the four column views: filterByStatus(status) ----------- *)
\* the status of every stored task, as the task snapshot carries it
StatusSnapshot == [t \in TaskIds |-> IF t \in tasks THEN taskDocs[t].status ELSE "todo"]

\* tasks.filter(task => task.status === status) on the list a run emitted;
\* each BoardTask has the status its task had in the run's task snapshot
filterByStatus(column, list, status) ==
  LET ids == [i \in 1..Len(list) |-> list[i].id]
  IN SelectSeq(ids, LAMBDA t : status[t] = column)

\* whether a join's step makes the run's combineLatest emit
join_Emits(r, taskId, j) ==
  /\ j.out # r.joins[taskId].out \/ j.inner = None
  /\ \A i \in 1..Len(r.taskSnap[1]) :
        [r.joins EXCEPT ![taskId] = j][r.taskSnap[1][i]].out # None

\* the view after a step of its run: the map() of filterByStatus runs on
\* every list the run emits
view_After(v, r, status, emitted) ==
  Some([run |-> r, status |-> status,
        list |-> IF emitted THEN Some(filterByStatus(v, r.lastEmit[1], status))
                            ELSE views[v][1].list])

\* the template's async pipes subscribe the four views in one pass; every
\* subscription of a view subscribes tasks$, which is cold, anew
views_Subscribe ==
  /\ \A v \in Statuses : views[v] = None
  /\ views' = [v \in Statuses |-> Some(viewOn)]
  /\ UNCHANGED <<storeVars, dt, dc, st, ct, board, st2>>

\* authState delivers the session to the run behind view v
view_AuthState(v) ==
  /\ views[v] # None
  /\ views[v][1].run.session # Some(currentUser)
  /\ views' = [views EXCEPT ![v] = view_After(v, run_Auth(@[1].run, currentUser), @[1].status,
                                              currentUser = NoUser)]
  /\ UNCHANGED <<storeVars, dt, dc, st, ct, board, st2>>

\* the task collection's listener of the run behind view v delivers its
\* first snapshot or one in which a document changed
view_Tasks(v) ==
  /\ views[v] # None
  /\ views[v][1].run.taskSub
  /\ \/ views[v][1].run.taskSnap # Some(TaskSnapshot)
     \/ views[v][1].status # StatusSnapshot
  /\ views' = [views EXCEPT ![v] = view_After(v, run_Tasks(@[1].run, TaskSnapshot),
                                              StatusSnapshot, Len(TaskSnapshot) = 0)]
  /\ UNCHANGED <<storeVars, dt, dc, st, ct, board, st2>>

\* subSubtasks(task.id) emits in the run behind view v
view_Subtasks(v, taskId) ==
  /\ views[v] # None
  /\ views[v][1].run.joins[taskId].active
  /\ views[v][1].run.joins[taskId].subtasks # Some(SubtaskSnapshot(taskId))
  /\ LET r == views[v][1].run
         subs == SubtaskSnapshot(taskId)
         j == [r.joins[taskId] EXCEPT !.subtasks = Some(subs)]
         emitted == /\ j.assigns # None
                    /\ join_Emits(r, taskId, enrichTask_Project(j, taskId, subs, j.assigns[1]))
     IN views' = [views EXCEPT ![v] = view_After(v, run_Subtasks(r, taskId, subs),
                                                 @[1].status, emitted)]
  /\ UNCHANGED <<storeVars, dt, dc, st, ct, board, st2>>

\* subTaskAssigns(task.id) emits in the run behind view v
view_Assigns(v, taskId) ==
  /\ views[v] # None
  /\ views[v][1].run.joins[taskId].active
  /\ views[v][1].run.joins[taskId].assigns # Some(AssignSnapshot(taskId))
  /\ LET r == views[v][1].run
         asg == AssignSnapshot(taskId)
         j == [r.joins[taskId] EXCEPT !.assigns = Some(asg)]
         emitted == /\ j.subtasks # None
                    /\ join_Emits(r, taskId, enrichTask_Project(j, taskId, j.subtasks[1], asg))
     IN views' = [views EXCEPT ![v] = view_After(v, run_Assigns(r, taskId, asg),
                                                 @[1].status, emitted)]
  /\ UNCHANGED <<storeVars, dt, dc, st, ct, board, st2>>

\* the subscriptions of the task collection, and the joins of task t, that
\* the four views hold together
TaskSubscriptions ==
  Cardinality({v \in Statuses : views[v] # None /\ views[v][1].run.taskSub})
JoinsOfTask(t) ==
  Cardinality({v \in Statuses : views[v] # None /\ views[v][1].run.joins[t].active})

\* SpecColumns: the board of the signed-in user c1 shows its four columns
\* over task t1, which has no subtasks and no assignments (so no
\* contact stream is subscribed), and a card is dropped into In progress
InitColumns ==
  /\ contacts = [c \in ContactIds |-> IF c = "c1" THEN "user" ELSE "plain"]
  /\ currentUser = "c1"
  /\ credentials = {"c1"}
  /\ tasks = {"t1"}
  /\ usedTasks = {"t1"}
  /\ assigns = {}
  /\ subtasks = {}
  /\ nextId = 1
  /\ InitIdle

\* the card of a task can be dragged once a column shows it
Shows(t) ==
  \E v \in Statuses :
     views[v] # None /\ views[v][1].list # None /\ t \in Range(views[v][1].list[1])

NextColumns ==
  \/ views_Subscribe
  \/ \E v \in Statuses : view_AuthState(v)
  \/ \E v \in Statuses : view_Tasks(v)
  \/ \E v \in Statuses, t \in TaskIds : view_Subtasks(v, t)
  \/ \E v \in Statuses, t \in TaskIds : view_Assigns(v, t)
  \/ \E t \in TaskIds, ok \in BOOLEAN : Shows(t) /\ drop(t, "in_progress", ok)

SpecColumns == InitColumns /\ [][NextColumns]_vars

(* ------------------------------ properties ----------------------------- *)

\* no method is between two of its awaited store calls
Quiescent ==
  /\ dt.pc \in {"idle", "done"}
  /\ dc.pc \in {"idle", "done"}
  /\ st.pc \in {"view", "editing", "done"}
  /\ ct.pc \in {"idle", "done"}

\* C1: deleteTaskWithChildren is all-or-nothing.  The only step of it that
\* changes the store is a successful commit, which removes the task document
\* and every subtask and assignment its two reads returned, and nothing
\* else; a failed commit deletes nothing and ends the call with the store's
\* error.
C1_AllOrNothing ==
  [][dt' # dt =>
       IF dt.pc = "commit" /\ dt'.result = "ok"
         THEN /\ dt.taskId \notin tasks'
              /\ \A s \in subtasks' : s.id \notin dt.subtasksSnap
              /\ \A a \in assigns' : a.id \notin dt.assignsSnap
              /\ tasks \ tasks' \subseteq {dt.taskId}
              /\ IdsOf(subtasks \ subtasks') \subseteq dt.subtasksSnap
              /\ IdsOf(assigns \ assigns') \subseteq dt.assignsSnap
         ELSE /\ UNCHANGED <<tasks, subtasks, assigns>>
              /\ dt.pc = "commit" => dt'.pc = "done" /\ dt'.result = "store-error"]_vars

\* a commit that deleted a task together with a subtask and an assignment
C1_Witness ==
  /\ dt.pc = "done"
  /\ dt.result = "ok"
  /\ dt.subtasksSnap # {}
  /\ dt.assignsSnap # {}
  /\ dt.taskId \notin tasks

\* C2: after deleteContact(C) has returned successfully, the query over all
\* tasks' assigns for contactId == C is empty.
C2_NoAssignsAfterDelete ==
  dc.pc = "done" /\ dc.result = "ok" => AssignsOfContact(dc.contactId) = {}

\* C3: deleteContact(c) by caller u is refused with permission-denied
\* exactly when c's document exists with isUser = true and u # c; otherwise
\* (own account, plain contact) it succeeds unless the store or the
\* authentication service fails.
C3_Permission ==
  dc.pc \notin {"idle", "getDoc"} /\ dc.contactSnap # "none" =>
    /\ dc.result = "permission-denied" <=>
         (dc.contactSnap = "user" /\ dc.caller # dc.contactId)
    /\ dc.result = "permission-denied" =>
         dc.pc = "done" /\ contacts[dc.contactId] = "user"
    /\ dc.pc = "done" /\ dc.result \notin {"store-error", "auth-error"} =>
         (dc.result = "ok" <=> ~(dc.contactSnap = "user" /\ dc.caller # dc.contactId))

\* the owner has deleted the own account
C3_Witness ==
  /\ dc.pc = "done"
  /\ dc.result = "ok"
  /\ dc.contactSnap = "user"
  /\ dc.caller = dc.contactId

\* C4: when no operation is in progress, no subtask and no assignment exists
\* under a task id whose task document does not exist.
C4_NoOrphans ==
  Quiescent => /\ \A a \in assigns : a.task \in tasks
               /\ \A s \in subtasks : s.task \in tasks

\* C5: when no deleteContact is in progress, every stored assignment's
\* contactId refers to an existing contact document.
C5_AssigneesExist ==
  dc.pc \in {"idle", "done"} => \A a \in assigns : contacts[a.contactId] # "absent"

\* C6: a saveTask that ran to its end without a failure, alone on the task
\* and with a duplicate-free desired assignee list, has deleted exactly the
\* stored assignments whose contactId is not desired, has created exactly
\* one assignment for each desired contactId that was not stored, and has
\* kept every other stored assignment as the same document.
C6_AssignReconciliation ==
  st.pc = "done" /\ st.result = "closed" /\ NoDup(st.assigns) =>
    LET stored == st.currentDbAssigns
        now == AssignsOf(st.taskId)
        desired == Range(st.assigns)
        storedContacts == {a.contactId : a \in stored}
    IN /\ \A a \in stored : a \in now <=> a.contactId \in desired
       /\ \A a \in now \ stored : a.contactId \in desired \ storedContacts
       /\ \A c \in desired \ storedContacts :
             Cardinality({a \in now \ stored : a.contactId = c}) = 1

\* a save that deleted one stored row, kept another and created a new one
C6_Witness ==
  /\ st.pc = "done"
  /\ st.result = "closed"
  /\ NoDup(st.assigns)
  /\ \E a, b \in st.currentDbAssigns :
        /\ a.contactId \notin Range(st.assigns) /\ a \notin assigns
        /\ b.contactId \in Range(st.assigns) /\ b \in assigns
  /\ \E n \in assigns \ st.currentDbAssigns : n.contactId \in Range(st.assigns)

\* the case of C7: the task's stored subtasks are [{x, false}] and the
\* desired subtasks are [{x, true}], and saveTask has run to its end
C7_Case ==
  /\ st.pc = "done"
  /\ st.result = "closed"
  /\ st.subtasks = <<[title |-> "x", done |-> TRUE]>>
  /\ \E s \in st.currentDbSubtasks :
        st.currentDbSubtasks = {s} /\ s.title = "x" /\ s.done = FALSE

\* C7 as stated: the stored subtask is deleted and a new subtask with title x
\* and done = true is created.
C7_DeletedAndRecreated ==
  C7_Case =>
    /\ st.currentDbSubtasks \cap subtasks = {}
    /\ \E s \in SubtasksOf(st.taskId) \ st.currentDbSubtasks : s.title = "x" /\ s.done = TRUE

\* C7 as amended: the stored subtask is matched by its title and left
\* untouched (same document, done still false), and no subtask is created.
C7_KeptByTitle ==
  C7_Case => SubtasksOf(st.taskId) = st.currentDbSubtasks

C7_Witness ==
  /\ C7_Case
  /\ \E s \in SubtasksOf(st.taskId) : s.title = "x" /\ s.done = FALSE

\* C8: every BoardTask a join emits has subtasksTotal = the number of
\* subtasks of the latest subtask snapshot, subtasksDone = the number of
\* those that are done, and progress = 0 without subtasks and otherwise the
\* integer nearest to 100 * subtasksDone / subtasksTotal (halves rounded
\* up); progress is an integer in 0..100.
C8_Progress ==
  [][\A t \in TaskIds :
       LET j == board'.joins[t] IN
       j.out # None /\ j.out # board.joins[t].out =>
         LET b == j.out[1]
             snap == j.subtasks[1]
         IN /\ b.subtasks = snap
            /\ b.subtasksTotal = Len(snap)
            /\ b.subtasksDone = Cardinality({i \in 1..Len(snap) : snap[i]})
            /\ b.progress \in 0..100
            /\ b.subtasksTotal = 0 => b.progress = 0
            /\ b.subtasksTotal > 0 =>
                 /\ 2 * b.progress * b.subtasksTotal <= 200 * b.subtasksDone + b.subtasksTotal
                 /\ 200 * b.subtasksDone + b.subtasksTotal
                      < 2 * (b.progress + 1) * b.subtasksTotal]_vars

\* a join with an assignee has emitted a task whose subtasks are done, done,
\* not done, not done: progress 50
C8_Witness ==
  /\ board.joins["t1"].out # None
  /\ board.joins["t1"].out[1].subtasks = <<TRUE, TRUE, FALSE, FALSE>>
  /\ board.joins["t1"].out[1].subtasksTotal = 4
  /\ board.joins["t1"].out[1].subtasksDone = 2
  /\ board.joins["t1"].out[1].progress = 50
  /\ board.joins["t1"].out[1].assigns # <<>>

\* C9: while the latest session value is absent, Board.tasks$ holds no
\* subscription to the task collection and no join, and the list it has
\* emitted last is the empty list (nothing at all before the session signal
\* has emitted its first value).
C9_AuthGate ==
  /\ board.session = None => board.lastEmit = None /\ ~board.taskSub
  /\ board.session = Some(NoUser) =>
       /\ ~board.taskSub
       /\ board.lastEmit = Some(<<>>)
       /\ \A t \in TaskIds : ~board.joins[t].active

\* the session signal has emitted an absent session: the gate is closed and
\* the empty list is what was emitted last
C9_Witness ==
  /\ board.session = Some(NoUser)
  /\ board.lastEmit = Some(<<>>)
  /\ board.taskSnap = None

\* C10: deleteTaskWithChildren('') and deleteContact('') end with the
\* missing-identifier error without having issued a store call, and the call
\* leaves the store unchanged.
C10_MissingId ==
  [][/\ dt'.pc # "idle" /\ dt'.taskId = NoId =>
          /\ dt'.pc = "done"
          /\ dt'.result = "missing-id"
          /\ dt'.calls = 0
          /\ dt' # dt => UNCHANGED storeVars
     /\ dc'.pc # "idle" /\ dc'.contactId = NoId =>
          /\ dc'.pc = "done"
          /\ dc'.result = "missing-id"
          /\ dc'.calls = 0
          /\ dc' # dc => UNCHANGED storeVars]_vars

\* both methods have been called with the empty identifier
C10_Witness ==
  /\ dt.pc = "done" /\ dt.taskId = NoId /\ dt.result = "missing-id"
  /\ dc.pc = "done" /\ dc.contactId = NoId /\ dc.result = "missing-id"

\* C11: deleteTaskWithChildren is idempotent.  When a call directly follows
\* a successful call with the same taskId, the store stays, at every step of
\* the second call, as the first call left it, and the second call ends
\* without a not-found error: it resolves unless the store refuses a call.
C11_Idempotent ==
  (dt.first # <<>> /\ dt.first[1].result = "ok") =>
     /\ tasks = dt.first[1].tasks
     /\ assigns = dt.first[1].assigns
     /\ subtasks = dt.first[1].subtasks
     /\ dt.result \in {"none", "ok", "store-error"}

\* the second call has resolved although the task it names, which had
\* children, was already deleted by the first
C11_Witness ==
  /\ dt.first # <<>>
  /\ dt.first[1].result = "ok"
  /\ dt.pc = "done"
  /\ dt.result = "ok"
  /\ dt.taskId = "t1"
  /\ "t1" \notin tasks
  /\ AssignsOf("t1") = {} /\ SubtasksOf("t1") = {}
  /\ nextId > 3

\* C12: every BoardTask a join emits has one assigns entry per row of the
\* latest assignment snapshot the join has received, in the rows' order and
\* carrying each row's contactId, whether or not the row's contact exists.
C12_OneEntryPerRow ==
  [][\A t \in TaskIds :
       (board'.joins[t].out # board.joins[t].out /\ board'.joins[t].out # None) =>
          LET out == board'.joins[t].out[1]
              rows == board'.joins[t].assigns[1]
          IN /\ Len(out.assigns) = Len(rows)
             /\ \A i \in 1..Len(rows) : out.assigns[i].contactId = rows[i]]_vars

\* a BoardTask with two rows of different contacts was emitted, the first
\* row's contact document missing
C12_Witness ==
  /\ board.joins["t1"].out # None
  /\ board.joins["t1"].assigns = Some(<<"c2", "c1">>)
  /\ Len(board.joins["t1"].out[1].assigns) = 2
  /\ board.joins["t1"].out[1].assigns[1] =
        [contactId |-> "c2", name |-> "", initials |-> "G", color |-> ""]
  /\ board.joins["t1"].out[1].assigns[2].name = "Ann"

\* C14: when deleteContact(C) is called by the account C itself and
\* resolves, that account's credential is removed and nobody is signed in;
\* a deleteContact of any other contact id leaves the credentials and the
\* session as they are at every step.
C14_OwnAccountRemoved ==
  [][/\ (dc.pc # "done" /\ dc'.pc = "done" /\ dc'.result = "ok"
                         /\ dc.caller = dc.contactId) =>
          (currentUser' = NoUser /\ dc.caller \notin credentials')
     /\ (dc.pc # "idle" /\ dc.caller # dc.contactId) =>
          UNCHANGED <<currentUser, credentials>>]_vars

\* the signed-in account c1 has deleted its own contact
C14_Witness ==
  /\ dc.pc = "done"
  /\ dc.result = "ok"
  /\ dc.contactId = "c1"
  /\ dc.caller = "c1"
  /\ contacts["c1"] = "absent"
  /\ currentUser = NoUser
  /\ "c1" \notin credentials

\* C13: while a session exists, an empty snapshot of the task collection
\* makes Board.tasks$ emit the empty list in the same step, and as long as
\* that snapshot is the latest no join is subscribed: no subtask, assignment
\* or contact stream of any task is active.
C13_EmptySnapshot ==
  [][(board'.session # None /\ board'.taskSub /\ board'.taskSnap = Some(<<>>)) =>
        /\ board'.lastEmit = Some(<<>>)
        /\ \A t \in TaskIds : board'.joins[t] = joinOff]_vars

\* the latest task snapshot of a signed-in board is empty: the empty list is
\* its latest emission and no join is subscribed
C13_Witness ==
  /\ board.session = Some("c1")
  /\ board.taskSub
  /\ board.taskSnap = Some(<<>>)
  /\ board.lastEmit = Some(<<>>)
  /\ \A t \in TaskIds : ~board.joins[t].active

\* C16: whenever the latest assignment snapshot of a subscribed join is empty
\* (and the subtasks have been received), the join has emitted a BoardTask
\* with assigns = [] and holds no contact subscription.
C16_NoAssignsNoContacts ==
  \A t \in TaskIds :
    (board.joins[t].active /\ board.joins[t].subtasks # None
                           /\ board.joins[t].assigns = Some(<<>>)) =>
       /\ board.joins[t].inner = None
       /\ board.joins[t].out # None
       /\ board.joins[t].out[1].assigns = <<>>

\* a subscribed join whose latest assignment snapshot is empty has emitted
\* its BoardTask without subscribing to a contact
C16_Witness ==
  /\ board.joins["t1"].active
  /\ board.joins["t1"].subtasks # None
  /\ board.joins["t1"].assigns = Some(<<>>)
  /\ board.joins["t1"].out # None
  /\ board.joins["t1"].out[1].assigns = <<>>
  /\ board.joins["t1"].inner = None

\* C17: every list Board.tasks$ emits while a task snapshot is the latest
\* holds exactly one BoardTask per task of that snapshot, in the snapshot's
\* order, whichever join emitted last.
C17_SnapshotOrder ==
  [][(board'.lastEmit # board.lastEmit /\ board'.taskSnap # None) =>
        /\ board'.lastEmit # None
        /\ Len(board'.lastEmit[1]) = Len(board'.taskSnap[1])
        /\ \A i \in 1..Len(board'.taskSnap[1]) :
              board'.lastEmit[1][i].id = board'.taskSnap[1][i]]_vars

\* the list for the snapshot [t2, t1] was emitted, t1's join with an
\* assignee and t2's without
C17_Witness ==
  /\ board.taskSnap = Some(<<"t2", "t1">>)
  /\ board.lastEmit # None
  /\ Len(board.lastEmit[1]) = 2
  /\ board.lastEmit[1][1].id = "t2"
  /\ board.lastEmit[1][2].id = "t1"
  /\ Len(board.lastEmit[1][2].assigns) = 1
  /\ board.lastEmit[1][1].assigns = <<>>

\* C15: a store call of saveTask that fails is caught: the method ends
\* there without rejecting, the failing call has written nothing, the writes
\* applied before it stay as they are, and no step follows.
C15_CaughtAndStopped ==
  [][/\ (st'.result = "caught" /\ st.result # "caught") =>
          (st'.pc = "done" /\ UNCHANGED storeVars)
     /\ st.result = "caught" => UNCHANGED <<storeVars, st>>]_vars

\* saveTask replaced the assignee c1 by c2 and then failed in its subtask
\* part: a desired subtask is still missing
C15_Witness ==
  /\ st.pc = "done"
  /\ st.result = "caught"
  /\ st.assigns = <<"c2">>
  /\ {a.contactId : a \in AssignsOf("t1")} = {"c2"}
  /\ \E i \in 1..Len(st.subtasks) :
        \A dbS \in SubtasksOf("t1") : dbS.title # st.subtasks[i].title

\* C18: a row whose contact document does not exist neither fails nor
\* stalls the join.  Once every contact stream of the latest rows has
\* emitted, the join's latest BoardTask shows each row by what its stream
\* emitted last: the contactId with name '' and color '' while the document
\* does not exist, the document's name and color (or '' for a field it
\* lacks) from the moment it does.
C18_Sentinel ==
  \A t \in TaskIds :
    LET j == board.joins[t]
    IN (j.active /\ j.inner # None
                 /\ \A k \in 1..Len(j.inner[1].assigns) : j.inner[1].contacts[k] # None) =>
         /\ j.out # None
         /\ Len(j.out[1].assigns) = Len(j.inner[1].assigns)
         /\ \A k \in 1..Len(j.inner[1].assigns) :
               LET doc == j.inner[1].contacts[k][1]
                   id == j.inner[1].assigns[k]
               IN j.out[1].assigns[k] =
                    IF doc = Undefined
                      THEN [contactId |-> id, name |-> "", initials |-> "G", color |-> ""]
                      ELSE [contactId |-> id,
                            name |-> IF doc[1].name = "undefined" THEN "" ELSE doc[1].name,
                            initials |-> getInitials(doc[1].name),
                            color |-> IF doc[1].color = "undefined" THEN "" ELSE doc[1].color]

\* two rows name the contact c1: the first still shows the sentinel, the
\* second, whose stream emitted after the document appeared, its name and color
C18_Witness ==
  /\ board.joins["t1"].assigns = Some(<<"c1", "c1">>)
  /\ board.joins["t1"].out # None
  /\ board.joins["t1"].out[1].assigns =
        <<[contactId |-> "c1", name |-> "", initials |-> "G", color |-> ""],
          [contactId |-> "c1", name |-> "Ann", initials |-> "A", color |-> "red"]>>

\* C19: deleteContact deletes the contact document only in the step after
\* its query and, when the query returned assignments, after the batch that
\* deletes them has committed: at that step none of the queried assignments
\* exists any more.  A failed query or commit ends the call with the
\* contact document as it was.
C19_AssignsBeforeContact ==
  [][/\ contacts' # contacts =>
          /\ dc.pc = "deleteDoc"
          /\ dc.calls >= 2
          /\ \A a \in assigns : a.id \notin dc.assignsSnap
     /\ (dc.pc \in {"getAssigns", "commit"} /\ dc'.result = "store-error") =>
          (dc'.pc = "done" /\ contacts' = contacts)]_vars

\* the contact was deleted after the batch removed the assignments the
\* query had returned
C19_Witness ==
  /\ dc.pc \in {"deleteUser", "done"}
  /\ dc.result \in {"none", "ok"}
  /\ dc.assignsSnap # {}
  /\ dc.calls = 4
  /\ contacts[dc.contactId] = "absent"
  /\ AssignsOfContact(dc.contactId) = {}

\* C20: for one subscriber of Board.tasks$ the subscribed joins are, from
\* the first task snapshot on, exactly the tasks of the latest snapshot (none
\* before it); a task that is not in it holds no subtask, assignment or
\* contact subscription, after an unsubscription nothing at all is
\* subscribed, and the live subscriptions are the ones the latest snapshot
\* accounts for: the task collection and, per task of it, its subtasks, its
\* assignments and one contact per row it projected last.
C20_JoinsFollowSnapshot ==
  LET ids == IF board.taskSnap = None THEN {} ELSE Range(board.taskSnap[1])
  IN /\ {t \in TaskIds : board.joins[t].active} = ids
     /\ \A t \in TaskIds \ ids : board.joins[t] = joinOff
     /\ ~board.subscribed => (~board.taskSub /\ ids = {})
     /\ ~board.taskSub => ids = {}
     /\ \A t \in ids :
          JoinSubscriptions(board.joins[t]) =
            2 + (IF board.joins[t].subtasks = None \/ board.joins[t].assigns = None
                   THEN 0 ELSE Len(board.joins[t].assigns[1]))
     /\ LiveSubscriptions(board) <=
          (IF board.taskSub THEN 1 ELSE 0) + Cardinality(ids) * (2 + MaxAssigns)

\* the subscriber has unsubscribed after a list with both tasks, one of
\* them with an assignee, was delivered: nothing is subscribed any more
C20_Witness ==
  /\ ~board.subscribed
  /\ board.lastEmit # None
  /\ Len(board.lastEmit[1]) = 2
  /\ \E i \in 1..2 : Len(board.lastEmit[1][i].assigns) = 1
  /\ LiveSubscriptions(board) = 0

\* C25: deleteContact(C) for a contact id whose document does not exist is
\* never refused, whoever calls.  Its query returns every assignment with
\* contactId == C of every task, its batch deletes all of them, and unless
\* the store or the authentication service fails it resolves.
C25_AbsentContact ==
  [][dc'.contactSnap = "absent" =>
        /\ dc'.result # "permission-denied"
        /\ (dc.pc = "getAssigns" /\ dc'.pc \in {"commit", "deleteDoc"}) =>
              dc'.assignsSnap = IdsOf(AssignsOfContact(dc.contactId))
        /\ (dc.pc = "commit" /\ dc'.pc \notin {"commit", "done"}) =>
              /\ dc'.pc = "deleteDoc"
              /\ \A a \in assigns' : a.id \notin dc.assignsSnap
        /\ (dc.pc # "done" /\ dc'.pc = "done"
                            /\ dc'.result \notin {"store-error", "auth-error"}) =>
              /\ dc'.result = "ok"
              /\ \A a \in assigns' : a.id \notin dc'.assignsSnap]_vars

\* nobody is signed in and the contact c2, whose document did not exist any
\* more, has been deleted again: the assignment that still named it is gone
C25_Witness ==
  /\ dc.pc = "done"
  /\ dc.result = "ok"
  /\ dc.contactSnap = "absent"
  /\ dc.caller # dc.contactId
  /\ dc.assignsSnap # {}
  /\ AssignsOfContact(dc.contactId) = {}

\* C28: a deleteContact that is refused with permission-denied has made one
\* store call, the read of the contact document, and the step that refuses
\* changes neither the store nor the session nor the credentials; the
\* contact document exists afterwards.
C28_DeniedChangesNothing ==
  [][(dc'.result = "permission-denied" /\ dc.result # "permission-denied") =>
        /\ dc.pc = "getDoc"
        /\ dc.calls = 0
        /\ dc'.pc = "done"
        /\ dc'.assignsSnap = {}
        /\ UNCHANGED storeVars
        /\ contacts'[dc.contactId] = "user"]_vars

\* c2, signed in, was refused the deletion of the account c1, whose
\* assignment is still stored
C28_Witness ==
  /\ dc.pc = "done"
  /\ dc.result = "permission-denied"
  /\ dc.contactId = "c1"
  /\ dc.caller = "c2"
  /\ contacts["c1"] = "user"
  /\ AssignsOfContact("c1") # {}
  /\ currentUser = "c2"
  /\ credentials = {"c1", "c2"}

\* C29: when the owner's deleteContact(own id) has ended, it is not the case
\* that the contact document is deleted while the account's credential
\* still exists and the account is still signed in.
C29_NoHalfDeletedAccount ==
  (dc.pc = "done" /\ dc.caller = dc.contactId) =>
     ~(/\ contacts[dc.contactId] = "absent"
       /\ dc.caller \in credentials
       /\ currentUser = dc.caller)

\* C23: within one join, the contact subscriptions that are pending belong
\* to the latest subtask and assignment snapshots, and every BoardTask the
\* join emits is built from those two: no emission comes from a snapshot
\* the join has received a successor of.
C23_LatestInputs ==
  [][\A t \in TaskIds :
       LET j == board'.joins[t] IN
       /\ j.inner # None =>
            /\ j.subtasks # None /\ j.inner[1].subtasks = j.subtasks[1]
            /\ j.assigns # None /\ j.inner[1].assigns = j.assigns[1]
       /\ (j.out # None /\ j.out # board.joins[t].out) =>
            /\ j.out[1].subtasks = j.subtasks[1]
            /\ Len(j.out[1].assigns) = Len(j.assigns[1])
            /\ \A i \in 1..Len(j.assigns[1]) :
                  j.out[1].assigns[i].contactId = j.assigns[1][i]]_vars

\* the join shows the one subtask as done and the assignee by name: the
\* latest of its snapshots
C23_Witness ==
  /\ board.joins["t1"].subtasks = Some(<<TRUE>>)
  /\ board.joins["t1"].assigns = Some(<<"c1">>)
  /\ board.joins["t1"].out # None
  /\ board.joins["t1"].out[1].subtasks = <<TRUE>>
  /\ board.joins["t1"].out[1].progress = 100
  /\ Len(board.joins["t1"].out[1].assigns) = 1
  /\ board.joins["t1"].out[1].assigns[1].name = "Ann"

\* the steps of saveTask's two diffs that write
DiffWritePcs == {"deleteTaskAssign", "addTaskAssign", "deleteSubtask", "addSubtask"}

\* a write of the diff has just failed
DiffWriteFails == st.pc \in DiffWritePcs /\ st.result # "caught" /\ st'.result = "caught"

\* C24: when a write of saveTask's assignment diff fails, the procedure goes
\* on: it is not at its end, the rest of the diff is still to be attempted.
C24_ContinuesAfterFailure ==
  [][(DiffWriteFails /\ st.pc \in {"deleteTaskAssign", "addTaskAssign"}) =>
        st'.pc # "done"]_vars

\* C24, as the code has it: when a write of saveTask's assignment or subtask
\* diff fails, the procedure ends at once; the rows still to be deleted and
\* created stay as they are, unattempted, and the store is not written.
C24_StopsAtFailure ==
  [][DiffWriteFails =>
        /\ st'.pc = "done"
        /\ st'.delTodo = st.delTodo
        /\ st'.addTodo = st.addTodo
        /\ st'.currentDbSubtasks = st.currentDbSubtasks
        /\ UNCHANGED <<assigns, subtasks>>]_vars

\* the first of two assignment deletes failed: both stored assignments, the
\* assignee still to be created and the subtasks, whose diff was never
\* read, are as they were
C24_Witness ==
  /\ st.pc = "done"
  /\ st.result = "caught"
  /\ Cardinality(st.currentDbAssigns) = 2
  /\ Cardinality(st.delTodo) = 2
  /\ Len(st.addTodo) = 1
  /\ AssignsOf("t1") = st.currentDbAssigns
  /\ st.currentDbSubtasks = {}
  /\ SubtasksOf("t1") # {}
  /\ \A dbS \in SubtasksOf("t1") : dbS.title # st.subtasks[1].title

\* C27: a task never has two assignment documents with the same contactId,
\* whatever the interleaving of two saveTask calls that both add the contact
C27_OneAssignPerContact ==
  \A a, b \in assigns : (a.task = b.task /\ a.contactId = b.contactId) => a.id = b.id

\* the task document keeps everything but its status
StatusOnly(t) ==
  /\ taskDocs'[t] = [taskDocs[t] EXCEPT !.status = taskDocs'[t].status]
  /\ st' = st

\* the task document takes the form's title, description, priority and day
\* and keeps its status and type
FieldsOnly(t) ==
  /\ st.pc = "editing" /\ st.taskId = t
  /\ taskDocs'[t] = [taskDocs[t] EXCEPT !.title = st.form.title,
                                        !.description = st.form.description,
                                        !.priority = st.form.priority,
                                        !.date = st.form.date * DayLen]
  /\ taskDocs'[t].status = taskDocs[t].status
  /\ taskDocs'[t].type = taskDocs[t].type

\* a drop on t1 into any column is possible and sets that status
AnyStatusAllowed ==
  \A status \in Statuses :
     ENABLED (drop("t1", status, TRUE) /\ taskDocs'["t1"].status = status)

\* the status write and the form write give the same document in either order
WritesCommute ==
  \A status \in Statuses, form \in Forms \cup {st.form} :
     LET doc == taskDocs["t1"]
         a == updateTaskStatus_Merge(editTask_Merge(doc, form), status)
         b == editTask_Merge(updateTaskStatus_Merge(doc, status), form)
     IN /\ a = b
        /\ a.status = status
        /\ formOf(a) = form

\* C26: every column is reachable from every column by a drop, which changes
\* only the status; saveTask's write changes only title, description,
\* priority and date; so the two writes commute and a saved form stays in
\* the document whatever is dropped around it
C26_StatusAndFieldsIndependent ==
  /\ [][\A t \in TaskIds :
          taskDocs'[t] # taskDocs[t] => (StatusOnly(t) \/ FieldsOnly(t))]_vars
  /\ [](tasks = {"t1"} => AnyStatusAllowed /\ WritesCommute)
  /\ [](st.pc \in {"getAssigns", "getSubtasks"} \/ st.result = "closed" =>
          formOf(taskDocs["t1"]) = st.form)

\* the dialog has saved an edited title and the task was moved to Done afterwards
C26_Witness ==
  /\ st.result = "closed"
  /\ taskDocs["t1"].title = "b"
  /\ taskDocs["t1"].status = "done"
  /\ taskDocs["t1"].type = NewTaskDoc.type

\* every join of the board whose latest assignment snapshot names contact c
\* has emitted a BoardTask whose rows for c carry the document's name, its
\* initials and its color, and the list tasks$ emitted last holds that BoardTask
Shown(c, doc) ==
  \A t \in TaskIds :
    LET j == board.joins[t]
    IN (j.active /\ j.assigns # None /\ c \in Range(j.assigns[1])) =>
         /\ j.out # None
         /\ Len(j.out[1].assigns) = Len(j.assigns[1])
         /\ \A k \in 1..Len(j.assigns[1]) :
               j.assigns[1][k] = c =>
                 j.out[1].assigns[k] =
                   [contactId |-> c, name |-> doc.name,
                    initials |-> IF doc.name = "Ann" THEN "A" ELSE "BR",
                    color |-> doc.color]
         /\ board.lastEmit # None
         /\ \E k \in 1..Len(board.lastEmit[1]) : board.lastEmit[1][k] = j.out[1]

\* C22: once a contact's document holds a name and color, every join that
\* assigns the contact comes to show them, and so does the list of tasks$,
\* unless the document is changed again first; the subscription stays the same
C22_RenamePropagates ==
  \A doc \in [name : {"Ann", "Bob Ray"}, color : {"red", "blue"}] :
     (contactDocs["c1"] = doc) ~>
        (contactDocs["c1"] # doc \/ (board.subscribed /\ Shown("c1", doc)))

\* both joins that assign c1 show its new name, initials and color in the
\* list tasks$ emitted
C22_Witness ==
  /\ contactDocs["c1"] = [name |-> "Bob Ray", color |-> "blue"]
  /\ board.joins["t1"].assigns = Some(<<"c1", "c2">>)
  /\ board.joins["t2"].assigns = Some(<<"c1">>)
  /\ board.lastEmit # None
  /\ Len(board.lastEmit[1]) = 2
  /\ board.lastEmit[1][1].assigns[1] =
        [contactId |-> "c1", name |-> "Bob Ray", initials |-> "BR", color |-> "blue"]
  /\ board.lastEmit[1][2].assigns[1] =
        [contactId |-> "c1", name |-> "Bob Ray", initials |-> "BR", color |-> "blue"]

\* C21: with the four column views subscribed there is one subscription of
\* the task collection and one join per task, shared by the views
C21_OneSharedRun ==
  (\A v \in Statuses : views[v] # None) =>
     /\ TaskSubscriptions <= 1
     /\ \A t \in TaskIds : JoinsOfTask(t) <= 1

\* C30: a task whose join has emitted in the run of every column view is
\* in the list of exactly one of the four views
C30_ExactlyOneColumn ==
  \A t \in tasks :
    (\A v \in Statuses : /\ views[v] # None
                          /\ views[v][1].list # None
                          /\ views[v][1].run.joins[t].out # None) =>
       Cardinality({v \in Statuses : t \in Range(views[v][1].list[1])}) = 1

====
